---- MODULE Spec2Model ----
(***************************************************************************)
(* A model of simplui/task.py: the Flow task-set container, the           *)
(* structural helpers (flatten), the completeness protocol (Task.complete, *)
(* WrapperTask.complete, DynamicRequirements.complete, the naive           *)
(* bulk_complete mixin) and the task identity (task_id_str, __eq__,        *)
(* __hash__).  Each component has its own specification over its own       *)
(* variables; the variables of the other components stay at their idle     *)
(* values.                                                                 *)
(***************************************************************************)
EXTENDS Integers, Sequences, FiniteSets, TLC

VARIABLES
    \* ---- Flow ----
    name,        \* Flow.name
    taskset,     \* Flow.taskset: an insertion-ordered dict, name -> task
    autoRename,  \* Flow.autoRename
    taskName,    \* the name attribute of every task object
    ret,         \* the outcome of the last Flow call
    addLog,      \* history: the (stored name, task) of every successful add
    \* ---- flatten ----
    struct,      \* the argument of flatten
    flat,        \* the list flatten returned, once it has been called
    \* ---- Task.complete / WrapperTask.complete ----
    ctasks,      \* the task objects: class, output(), requires(), hidden deps
    exists,      \* exists() of every output target
    cret,        \* the outcome of the last complete() call
    \* ---- DynamicRequirements ----
    dynreq,       \* the object: requirements, custom_complete, _flat_requirements
    taskDone,     \* task.complete() of every wrapped task
    customCalls,  \* how often the custom predicate has been invoked
    defaultEvals, \* how often the default all-requirements check has run
    dret,         \* the outcome of the last DynamicRequirements.complete call
    \* ---- MixinNaiveBulkComplete ----
    parameter_tuples,  \* the argument of bulk_complete
    instDone,          \* complete() of every instance of the class
    bret,              \* what bulk_complete returned or raised
    \* ---- task identity ----
    cdef,        \* the task definition: its declared parameters
    inst,        \* the two task instances constructed from it
    hashseed,    \* PYTHONHASHSEED of the process
    \* ---- getpaths ----
    gstruct,     \* the argument of getpaths: a generator in it loses what the call takes
    goutput,     \* what output() of every task returns
    gret,        \* what getpaths returned or raised, once it has been called
    \* ---- flatten_output ----
    ftasks,            \* the dependency graph: output() and requires() of every task
    froot,             \* the task flatten_output was called with
    tasks_to_process,  \* the deque of the walk
    output_tasks,      \* the ordered set of tasks with outputs found so far
    fpc,               \* where flatten_output is: "idle", "loop" or "done"
    dequeues,          \* history: how often each task has been taken off the deque
    expanded,          \* history: the tasks whose requires() was put on the deque
    fret,              \* the list flatten_output returned
    \* ---- Task.get_param_values ----
    pclasses,          \* the task definitions: family, base class, parameters, ignore_unconsumed
    conf,              \* the configuration: the keys of the section of every family
    unconsumed_params, \* the _unconsumed_params attribute in the namespace of every class
    warned,            \* history: the (family, key) of every UnconsumedParameterWarning
    pret,              \* the outcome of the last get_param_values call
    \* ---- Task.event_handler / Task.trigger_event ----
    event_callbacks,   \* Task._event_callbacks: class -> event -> set of callbacks
    registered,        \* history: every registration and removal, in order
    tret               \* the trigger_event call: where it is, or how it ended

flowVars == <<name, taskset, autoRename, taskName, ret, addLog>>
flatVars == <<struct, flat>>
compVars == <<ctasks, exists, cret>>
dynVars == <<dynreq, taskDone, customCalls, defaultEvals, dret>>
bulkVars == <<parameter_tuples, instDone, bret>>
idVars == <<cdef, inst, hashseed>>
pathVars == <<gstruct, goutput, gret>>
walkVars == <<ftasks, froot, tasks_to_process, output_tasks, fpc, dequeues, expanded, fret>>
paramVars == <<pclasses, conf, unconsumed_params, warned, pret>>
eventVars == <<event_callbacks, registered, tret>>

vars == <<flowVars, flatVars, compVars, dynVars, bulkVars, idVars, pathVars, walkVars, paramVars, eventVars>>

\* the variables of all components but one
notFlow == <<flatVars, compVars, dynVars, bulkVars, idVars, pathVars, walkVars, paramVars, eventVars>>
notFlat == <<flowVars, compVars, dynVars, bulkVars, idVars, pathVars, walkVars, paramVars, eventVars>>
notComp == <<flowVars, flatVars, dynVars, bulkVars, idVars, pathVars, walkVars, paramVars, eventVars>>
notDyn == <<flowVars, flatVars, compVars, bulkVars, idVars, pathVars, walkVars, paramVars, eventVars>>
notBulk == <<flowVars, flatVars, compVars, dynVars, idVars, pathVars, walkVars, paramVars, eventVars>>
notId == <<flowVars, flatVars, compVars, dynVars, bulkVars, pathVars, walkVars, paramVars, eventVars>>
notPath == <<flowVars, flatVars, compVars, dynVars, bulkVars, idVars, walkVars, paramVars, eventVars>>
notWalk == <<flowVars, flatVars, compVars, dynVars, bulkVars, idVars, pathVars, paramVars, eventVars>>
notParam == <<flowVars, flatVars, compVars, dynVars, bulkVars, idVars, pathVars, walkVars, eventVars>>
notEvent == <<flowVars, flatVars, compVars, dynVars, bulkVars, idVars, pathVars, walkVars, paramVars>>

(***************************************************************************)
(* Bounds                                                                  *)
(***************************************************************************)
NumTasks == 2      \* task objects that can be passed to Flow.add
MaxAdds == 3       \* entries a Flow can hold in the model
MaxNodes == 4      \* nodes (containers and leaves) of a nested structure
NumCTasks == 3     \* tasks of a dependency graph
DynNodes == 3      \* nodes of the requirements wrapped by a DynamicRequirements
MaxCalls == 2      \* complete() calls on one DynamicRequirements
MaxTuples == 2     \* elements of the parameter_tuples given to bulk_complete
NumParams == 2     \* declared parameters of a task definition
PathNodes == 3     \* nodes of the structure given to getpaths
WalkTasks == 3     \* tasks of the graph flatten_output walks
MaxDequeues == 2   \* times one task is taken off the deque of flatten_output
NumCallbacks == 5  \* callbacks that can be registered as event handlers
MaxRegistrations == 3   \* event_handler and remove_event_handler calls from outside a
                        \* callback in one behaviour
RecursionLimit == 1000 \* frames the call stack can hold: sys.getrecursionlimit()
InstanceCheckFrames == 4  \* frames of isinstance(struct, Task) above its caller, through
                          \* the __instancecheck__ of the metaclass (abc.ABCMeta)
OutputFrames == 1         \* the frame of struct.output()
ColdCallFrames == 1       \* one frame more for the call of a builtin from code the
                          \* interpreter has not specialised yet
Warmup == 7               \* runs of a function before the interpreter specialises it
MaxHierarchy == 3  \* levels of subclasses below Task (sample_cpp_build/sqbuild.py:
                   \* CCLink, CCompileObject, ShellTask)
MaxHeadroom == 12  \* frames left on the call stack when getpaths is called from a
                   \* deep frame

\* the frames of isinstance(struct, Task) when the class of struct is checked
\* for the first time in the process: the subclasses of Task are asked too,
\* two frames for each level of them
FirstCheckFrames(hierarchy) == InstanceCheckFrames + 2 * hierarchy

(***************************************************************************)
(* Python dict, insertion ordered: a sequence of [key, val] entries        *)
(***************************************************************************)
Keys(d) == {d[i].key : i \in 1..Len(d)}

Has(d, k) == k \in Keys(d)

Get(d, k) == d[CHOOSE i \in 1..Len(d) : d[i].key = k].val

Values(d) == [i \in 1..Len(d) |-> d[i].val]

\* d[k] = v: an existing key keeps its position and gets the new value
DictSet(d, k, v) ==
    IF Has(d, k)
    THEN [i \in 1..Len(d) |-> IF d[i].key = k THEN [key |-> k, val |-> v] ELSE d[i]]
    ELSE Append(d, [key |-> k, val |-> v])

(***************************************************************************)
(* Flow                                                                    *)
(***************************************************************************)
RetryLimit == 100000

TaskObjs == 1..NumTasks
NotATask == 0                       \* an object that is not a simplui.Task
FlowNames == {"", "f"}
TaskNames == {"a", "f_0", "_0"}
FlowAttrs == {"taskset", "name", "autoRename"}   \* set by Flow.__init__

\* the while loop of getUniqueName
RECURSIVE UniqueNameLoop(_, _, _, _)
UniqueNameLoop(fname, ts, newname, incval) ==
    IF Has(ts, newname) /\ incval < RetryLimit
    THEN UniqueNameLoop(fname, ts, fname \o "_" \o ToString(incval), incval + 1)
    ELSE newname

\* getUniqueName that returns the task's name without looking at the Flow
getUniqueName_NoLookup(fname, ts, cname) ==
    [outcome |-> "ok", value |-> cname]

\* getUniqueName: the name, or the error it raises
getUniqueName(fname, ts, cname) ==
    LET newname == UniqueNameLoop(fname, ts, cname, 0)
    IN  IF ~Has(ts, newname)
        THEN [outcome |-> "ok", value |-> newname]
        ELSE [outcome |-> "ValueError", value |-> cname]

NoCall == [op |-> "none"]

FlowInit ==
    /\ name \in FlowNames
    /\ taskset = <<>>
    /\ autoRename = TRUE
    /\ taskName \in [TaskObjs -> TaskNames]
    /\ ret = NoCall
    /\ addLog = <<>>

AddRet(intask, given, outcome, stored) ==
    [op |-> "add", intask |-> intask, given |-> given, outcome |-> outcome,
     stored |-> stored, auto |-> autoRename, before |-> taskset]

\* Flow.add without the uniqueness test of the autoRename-disabled branch
addResult_NoCollisionTest(auto, fname, ts, given) ==
    IF auto
    THEN LET uniq == getUniqueName(fname, ts, given)
         IN  [outcome |-> uniq.outcome, stored |-> uniq.value]
    ELSE [outcome |-> "ok", stored |-> given]

\* Flow.add, the name decision: the name to store under, or the error
addResult(auto, fname, ts, given) ==
    IF auto
    THEN LET uniq == getUniqueName(fname, ts, given)
         IN  [outcome |-> uniq.outcome, stored |-> uniq.value]
    ELSE IF Has(ts, given)
         THEN [outcome |-> "ValueError", stored |-> given]
         ELSE [outcome |-> "ok", stored |-> given]

\* Flow.add(intask)
add(intask) ==
    /\ Len(taskset) < MaxAdds
    /\ IF intask \notin TaskObjs
       THEN /\ ret' = AddRet(intask, "", "TypeError", "")
            /\ UNCHANGED <<taskset, taskName, addLog>>
       ELSE LET given == taskName[intask]
                r == addResult(autoRename, name, taskset, given)
            IN  IF r.outcome = "ok"
                THEN /\ taskName' = IF autoRename
                                    THEN [taskName EXCEPT ![intask] = r.stored]
                                    ELSE taskName
                     /\ taskset' = DictSet(taskset, taskName'[intask], intask)
                     /\ addLog' = Append(addLog, [key |-> taskName'[intask], val |-> intask])
                     /\ ret' = AddRet(intask, given, "ok", taskName'[intask])
                ELSE /\ ret' = AddRet(intask, given, r.outcome, "")
                     /\ UNCHANGED <<taskset, taskName, addLog>>
    /\ UNCHANGED <<name, autoRename, notFlow>>

\* flow.autoRename = b
SetAutoRename(b) ==
    /\ autoRename # b
    /\ autoRename' = b
    /\ ret' = NoCall
    /\ UNCHANGED <<name, taskset, taskName, addLog, notFlow>>

\* Flow.__iter__: iter(self.tasks), an attribute that __init__ never sets
FlowIter ==
    /\ ret.op # "iter"
    /\ ret' = IF "tasks" \in FlowAttrs
              THEN [op |-> "iter", outcome |-> "ok", items |-> Values(taskset)]
              ELSE [op |-> "iter", outcome |-> "AttributeError", items |-> <<>>]
    /\ UNCHANGED <<name, taskset, autoRename, taskName, addLog, notFlow>>

FlowNext ==
    \/ \E intask \in TaskObjs \cup {NotATask} : add(intask)
    \/ \E b \in BOOLEAN : SetAutoRename(b)
    \/ FlowIter

FlowIdle ==
    /\ name = ""
    /\ taskset = <<>>
    /\ autoRename = TRUE
    /\ taskName = <<>>
    /\ ret = NoCall
    /\ addLog = <<>>

(***************************************************************************)
(* Nested structures.  A value is one of                                   *)
(*   [tag |-> "None"]                                                      *)
(*   [tag |-> "str",  s |-> a string]                                      *)
(*   [tag |-> "atom", id |-> n]       a non-iterable object (target, number)*)
(*   [tag |-> "task", id |-> t]       a Task instance, where the code asks  *)
(*                                    isinstance(struct, Task)              *)
(*   [tag |-> "list" | "tuple" | "iter", items |-> a sequence of values]   *)
(*   [tag |-> "dict", keys |-> a sequence of strings, items |-> values]    *)
(***************************************************************************)
None == [tag |-> "None"]
Str(s) == [tag |-> "str", s |-> s]
Atom(n) == [tag |-> "atom", id |-> n]
List(items) == [tag |-> "list", items |-> items]
Dict(items) ==
    [tag |-> "dict", keys |-> [i \in 1..Len(items) |-> "k" \o ToString(i)], items |-> items]

\* all structures of exactly n nodes over the given leaves, and all
\* sequences of structures of n nodes in total
RECURSIVE Tree(_, _), Forest(_, _)
Tree(n, leaves) ==
    IF n = 0 THEN {}
    ELSE (IF n = 1 THEN leaves ELSE {})
         \cup {List(f) : f \in Forest(n - 1, leaves)}
         \cup {Dict(f) : f \in Forest(n - 1, leaves)}

Forest(n, leaves) ==
    IF n = 0 THEN {<<>>}
    ELSE UNION {{<<t>> \o f : t \in Tree(k, leaves), f \in Forest(n - k, leaves)} : k \in 1..n}

StructsUpTo(n, leaves) == UNION {Tree(k, leaves) : k \in 1..n}

(***************************************************************************)
(* flatten                                                                 *)
(***************************************************************************)
\* flatten without the None test: None is not iterable and becomes a leaf
RECURSIVE flatten_KeepsNone(_)
flatten_KeepsNone(s) ==
    IF s.tag \in {"None", "str", "atom"} THEN <<s>>
    ELSE LET RECURSIVE Cat(_)
             Cat(i) == IF i > Len(s.items) THEN <<>>
                       ELSE flatten_KeepsNone(s.items[i]) \o Cat(i + 1)
         IN  Cat(1)

RECURSIVE flatten(_)
flatten(s) ==
    IF s.tag = "None" THEN <<>>
    ELSE IF s.tag = "dict"
    THEN LET RECURSIVE CatValues(_)
             CatValues(i) == IF i > Len(s.items) THEN <<>>
                             ELSE flatten(s.items[i]) \o CatValues(i + 1)
         IN  CatValues(1)
    ELSE IF s.tag = "str" THEN <<s>>
    ELSE IF s.tag \in {"atom", "task"} THEN <<s>>   \* iter(struct) raises TypeError
    ELSE LET RECURSIVE CatItems(_)
             CatItems(i) == IF i > Len(s.items) THEN <<>>
                            ELSE flatten(s.items[i]) \o CatItems(i + 1)
         IN  CatItems(1)

FlatLeaves == {None, Str("foo"), Atom(1), Atom(2)}

NotCalled == [called |-> FALSE]

FlatInit ==
    /\ struct \in StructsUpTo(MaxNodes, FlatLeaves)
    /\ flat = NotCalled

FlatIdle ==
    /\ struct = None
    /\ flat = NotCalled

\* flat = flatten(struct)
CallFlatten ==
    /\ ~flat.called
    /\ flat' = [called |-> TRUE, value |-> flatten(struct)]
    /\ UNCHANGED <<struct, notFlat>>

FlatNext == CallFlatten

(***************************************************************************)
(* Task.complete, WrapperTask.complete, Task._requires, Task.deps          *)
(***************************************************************************)
Targets == {1, 2}

\* a task object: its class, what output() and requires() return, and the
\* dependencies an overridden _requires() appends to those of requires()
TaskObj(kind, out, req, hid) ==
    [kind |-> kind, output |-> out, requires |-> req, hidden |-> hid]

\* Task._requires: flatten(self.requires()), plus the hidden dependencies
\* when a template class overrides it
_requires(ts, t) == List(flatten(ts[t].requires) \o ts[t].hidden)

\* Task.deps
deps(ts, t) == flatten(_requires(ts, t))

\* Task.complete that takes a task without outputs for complete
TaskComplete_NoEmptyTest(ts, ex, t) ==
    LET outputs == flatten(ts[t].output)
    IN  [value |-> \A i \in 1..Len(outputs) : ex[outputs[i].id], warnings |-> 0]

\* Task.complete: the value returned and the warnings recorded
TaskComplete(ts, ex, t) ==
    LET outputs == flatten(ts[t].output)
    IN  IF Len(outputs) = 0
        THEN [value |-> FALSE, warnings |-> 1]
        ELSE [value |-> \A i \in 1..Len(outputs) : ex[outputs[i].id], warnings |-> 0]

RECURSIVE complete(_, _, _)

\* WrapperTask without its complete() override
WrapperComplete_NotOverridden(ts, ex, t) == TaskComplete(ts, ex, t)

\* WrapperTask.complete: all() stops at the first requirement that is not
\* complete
WrapperComplete(ts, ex, t) ==
    LET rs == flatten(ts[t].requires)
        RECURSIVE AllFrom(_)
        AllFrom(i) ==
            IF i > Len(rs) THEN [value |-> TRUE, warnings |-> 0]
            ELSE LET c == complete(ts, ex, rs[i].id)
                 IN  IF ~c.value THEN c
                     ELSE LET rest == AllFrom(i + 1)
                          IN  [value |-> rest.value,
                               warnings |-> c.warnings + rest.warnings]
    IN  AllFrom(1)

\* t.complete(), by the class of t
complete(ts, ex, t) ==
    IF ts[t].kind = "WrapperTask" THEN WrapperComplete(ts, ex, t)
    ELSE TaskComplete(ts, ex, t)

NoOutput == List(<<>>)            \* the default output() and requires()

\* one task with any output structure
TaskCompleteInit ==
    /\ ctasks \in {<<TaskObj("Task", out, NoOutput, <<>>)>> :
                     out \in StructsUpTo(MaxNodes, {None} \cup {Atom(o) : o \in Targets})}
    /\ exists \in [Targets -> BOOLEAN]
    /\ cret = NotCalled

\* the requires() a task can return over the tasks 1..(t - 1)
RequiresShapes(t) ==
    LET L == 1..(t - 1)
    IN  {NoOutput}
        \cup {Atom(j) : j \in L}
        \cup {List(<<Atom(pr[1]), Atom(pr[2])>>) : pr \in {q \in L \X L : q[1] # q[2]}}
        \cup {Dict(<<Atom(pr[1]), List(<<Atom(pr[2])>>)>>) :
                pr \in {q \in L \X L : q[1] # q[2]}}

HiddenShapes(t) == {<<>>} \cup {<<Atom(j)>> : j \in 1..(t - 1)}

TaskChoices(t) ==
    {TaskObj("Task", out, NoOutput, <<>>) : out \in {NoOutput} \cup {Atom(o) : o \in Targets}}
    \cup {TaskObj("WrapperTask", NoOutput, req, hid) :
            req \in RequiresShapes(t), hid \in HiddenShapes(t)}

\* a dependency graph: task t depends on tasks before it only
WrapperInit ==
    /\ ctasks \in {ts \in [1..NumCTasks -> UNION {TaskChoices(t) : t \in 1..NumCTasks}] :
                     \A t \in 1..NumCTasks : ts[t] \in TaskChoices(t)}
    /\ exists \in [Targets -> BOOLEAN]
    /\ cret = NotCalled

CompIdle ==
    /\ ctasks = <<>>
    /\ exists = <<>>
    /\ cret = NotCalled

\* cret = t.complete(); complete() changes no state, so one call per
\* behaviour shows every outcome
CallComplete(t) ==
    /\ ~cret.called
    /\ cret' = [called |-> TRUE, task |-> t] @@ complete(ctasks, exists, t)
    /\ UNCHANGED <<ctasks, exists, notComp>>

CompNext == \E t \in DOMAIN ctasks : CallComplete(t)

(***************************************************************************)
(* DynamicRequirements                                                     *)
(***************************************************************************)
DynTasks == {1, 2}

\* the custom_complete functions a caller passes: each is a function of the
\* complete_fn it receives
CustomPredicates == {"always", "never", "first", "any"}

ApplyCustom(pred, fn, requirements) ==
    LET ts == flatten(requirements)
    IN  CASE pred = "always" -> TRUE
          [] pred = "never" -> FALSE
          [] pred = "first" -> IF ts = <<>> THEN TRUE ELSE fn[ts[1].id]
          [] pred = "any" -> \E i \in 1..Len(ts) : fn[ts[i].id]

Omitted == [given |-> FALSE]
Given(fn) == [given |-> TRUE, fn |-> fn]

\* DynamicRequirements.flat_requirements: computed once, then cached
flat_requirements(dr) ==
    IF dr._flat_requirements = None
    THEN List(flatten(dr.requirements))
    ELSE dr._flat_requirements

\* complete() that also runs the default check when a custom predicate is set
DynComplete_FallsThrough(dr, done, cf) ==
    LET complete_fn == IF cf.given THEN cf.fn ELSE done
        fr == flat_requirements(dr)
    IN  [value |-> /\ (dr.custom_complete # "None" =>
                         ApplyCustom(dr.custom_complete, complete_fn, dr.requirements))
                   /\ \A i \in 1..Len(fr.items) : complete_fn[fr.items[i].id],
         custom |-> IF dr.custom_complete # "None" THEN 1 ELSE 0,
         default |-> 1,
         arg |-> complete_fn,
         cache |-> fr]

\* DynamicRequirements.complete: the value returned, whether the custom
\* predicate and the default check ran, the function handed to the
\* predicate, and the cache afterwards
DynComplete(dr, done, cf) ==
    LET complete_fn == IF cf.given THEN cf.fn ELSE done
    IN  IF dr.custom_complete # "None"
        THEN [value |-> ApplyCustom(dr.custom_complete, complete_fn, dr.requirements),
              custom |-> 1, default |-> 0,
              arg |-> complete_fn,
              cache |-> dr._flat_requirements]
        ELSE LET fr == flat_requirements(dr)
             IN  [value |-> \A i \in 1..Len(fr.items) : complete_fn[fr.items[i].id],
                  custom |-> 0, default |-> 1,
                  arg |-> complete_fn,
                  cache |-> fr]

\* DynamicRequirements.__init__
DynInit ==
    /\ dynreq \in {[requirements |-> r, custom_complete |-> c, _flat_requirements |-> None] :
                     r \in StructsUpTo(DynNodes, {Atom(t) : t \in DynTasks}),
                     c \in {"None"} \cup CustomPredicates}
    /\ taskDone \in [DynTasks -> BOOLEAN]
    /\ customCalls = 0
    /\ defaultEvals = 0
    /\ dret = NotCalled

DynIdle ==
    /\ dynreq = None
    /\ taskDone = <<>>
    /\ customCalls = 0
    /\ defaultEvals = 0
    /\ dret = NotCalled

\* dret = dynreq.complete(complete_fn)
CallDynComplete(cf) ==
    /\ customCalls + defaultEvals < MaxCalls
    /\ LET r == DynComplete(dynreq, taskDone, cf)
       IN  /\ dret' = [called |-> TRUE, cf |-> cf, value |-> r.value, arg |-> r.arg,
                       customBefore |-> customCalls, defaultBefore |-> defaultEvals]
           /\ customCalls' = customCalls + r.custom
           /\ defaultEvals' = defaultEvals + r.default
           /\ dynreq' = [dynreq EXCEPT !._flat_requirements = r.cache]
    /\ UNCHANGED <<taskDone, notDyn>>

\* reading the flat_requirements property
ReadFlatRequirements ==
    /\ dynreq._flat_requirements = None
    /\ dynreq' = [dynreq EXCEPT !._flat_requirements = flat_requirements(dynreq)]
    /\ UNCHANGED <<taskDone, customCalls, defaultEvals, dret, notDyn>>

DynNext ==
    \/ \E cf \in {Omitted} \cup {Given(fn) : fn \in [DynTasks -> BOOLEAN]} : CallDynComplete(cf)
    \/ ReadFlatRequirements

(***************************************************************************)
(* Task construction: Task.get_param_values                                *)
(***************************************************************************)
\* a declared parameter
Param(pname, positional, significant, visibility, hasDefault, default) ==
    [name |-> pname, positional |-> positional, significant |-> significant,
     visibility |-> visibility, hasDefault |-> hasDefault, default |-> default]

Raise(exc) == [outcome |-> exc]

\* parameter values: an int, a str, and the containers list_to_tuple tells
\* apart; a set is given as the sequence its iteration yields
IntVal(n) == [type |-> "int", n |-> n]
StrVal(chars) == [type |-> "str", chars |-> chars]
ListVal(items) == [type |-> "list", items |-> items]
SetVal(items) == [type |-> "set", items |-> items]
TupleVal(items) == [type |-> "tuple", items |-> items]

\* list_to_tuple, lines 413-418: tuple(x) of a list or a set, x otherwise
list_to_tuple(x) ==
    IF x.type \in {"list", "set"} THEN TupleVal(x.items) ELSE x

\* a declared parameter whose default or configuration value cannot be
\* parsed: has_task_value raises
BrokenDefault(q) == q @@ [defaultRaises |-> TRUE]
HasTaskValueRaises(q) == "defaultRaises" \in DOMAIN q

ParamNames(params) == {params[i].name : i \in 1..Len(params)}

\* get_param_values without the test for a keyword that repeats a
\* positional argument: the keyword value replaces the positional one
get_param_values_NoDuplicateTest(params, args, kwargs) ==
    LET positional_params == SelectSeq(params, LAMBDA q : q.positional)
        byPosition == {positional_params[i].name :
                         i \in 1..Len(positional_params) \cap 1..Len(args)}
        PosValue(n) ==
            args[CHOOSE i \in 1..Len(positional_params) : positional_params[i].name = n]
        supplied == byPosition \cup Keys(kwargs)
        \* the first parameter, in declaration order, that is not supplied and
        \* whose has_task_value raises or returns false; 0 if there is none
        NoTaskValue(q) == q.name \notin supplied /\ (HasTaskValueRaises(q) \/ ~q.hasDefault)
        unfilled == IF \E i \in 1..Len(params) : NoTaskValue(params[i])
                    THEN CHOOSE i \in 1..Len(params) :
                           /\ NoTaskValue(params[i])
                           /\ \A k \in 1..(i - 1) : ~NoTaskValue(params[k])
                    ELSE 0
        ValueOf(q) == IF Has(kwargs, q.name) THEN Get(kwargs, q.name)
                      ELSE IF q.name \in byPosition THEN PosValue(q.name)
                      ELSE q.default
    IN  IF Len(args) > Len(positional_params)
        THEN Raise("UnknownParameterException")
        ELSE IF \E i \in 1..Len(kwargs) : kwargs[i].key \notin ParamNames(params)
        THEN Raise("UnknownParameterException")
        ELSE IF unfilled # 0
        THEN IF HasTaskValueRaises(params[unfilled])
             THEN Raise("ValueError")
             ELSE Raise("MissingParameterException")
        ELSE [outcome |-> "ok",
              values |-> [i \in 1..Len(params) |->
                            [key |-> params[i].name,
                             val |-> list_to_tuple(ValueOf(params[i]))]]]

\* get_param_values, lines 376-418 and 439: one (name, value) per declared
\* parameter, in declaration order, or the exception raised
get_param_values(params, args, kwargs) ==
    LET positional_params == SelectSeq(params, LAMBDA q : q.positional)
        \* names filled by the positional arguments
        byPosition == {positional_params[i].name :
                         i \in 1..Len(positional_params) \cap 1..Len(args)}
        PosValue(n) ==
            args[CHOOSE i \in 1..Len(positional_params) : positional_params[i].name = n]
        \* the first keyword argument that raises, 0 if none does
        badKw == IF \E i \in 1..Len(kwargs) :
                       kwargs[i].key \in byPosition \/ kwargs[i].key \notin ParamNames(params)
                 THEN CHOOSE i \in 1..Len(kwargs) :
                        /\ kwargs[i].key \in byPosition \/ kwargs[i].key \notin ParamNames(params)
                        /\ \A k \in 1..(i - 1) :
                             kwargs[k].key \notin byPosition /\ kwargs[k].key \in ParamNames(params)
                 ELSE 0
        supplied == byPosition \cup Keys(kwargs)
        \* the first parameter, in declaration order, that is not supplied and
        \* whose has_task_value raises or returns false; 0 if there is none
        NoTaskValue(q) == q.name \notin supplied /\ (HasTaskValueRaises(q) \/ ~q.hasDefault)
        unfilled == IF \E i \in 1..Len(params) : NoTaskValue(params[i])
                    THEN CHOOSE i \in 1..Len(params) :
                           /\ NoTaskValue(params[i])
                           /\ \A k \in 1..(i - 1) : ~NoTaskValue(params[k])
                    ELSE 0
        ValueOf(q) == IF q.name \in byPosition THEN PosValue(q.name)
                      ELSE IF Has(kwargs, q.name) THEN Get(kwargs, q.name)
                      ELSE q.default
    IN  IF Len(args) > Len(positional_params)
        THEN Raise("UnknownParameterException")
        ELSE IF badKw # 0
        THEN IF kwargs[badKw].key \in byPosition
             THEN Raise("DuplicateParameterException")
             ELSE Raise("UnknownParameterException")
        ELSE IF unfilled # 0
        THEN IF HasTaskValueRaises(params[unfilled])
             THEN Raise("ValueError")
             ELSE Raise("MissingParameterException")
        ELSE [outcome |-> "ok",
              values |-> [i \in 1..Len(params) |->
                            [key |-> params[i].name,
                             val |-> list_to_tuple(ValueOf(params[i]))]]]

(***************************************************************************)
(* MixinNaiveBulkComplete.bulk_complete                                    *)
(***************************************************************************)
ParamValues == {IntVal(1), IntVal(2)}

\* the class bulk_complete is called on: a required parameter and one with
\* a default
BulkParams ==
    << Param("a", TRUE, TRUE, "PUBLIC", FALSE, IntVal(0)),
       Param("b", TRUE, TRUE, "PUBLIC", TRUE, IntVal(1)) >>

\* the elements of parameter_tuples: a list or tuple, a dict, anything else
SeqTuple(args) == [kind |-> "seq", args |-> args]
DictTuple(kwargs) == [kind |-> "dict", kwargs |-> kwargs]
Single(v) == [kind |-> "single", value |-> v]

\* cls(*t), cls(**t) or cls(t)
Construct(params, t) ==
    IF t.kind = "seq" THEN get_param_values(params, t.args, <<>>)
    ELSE IF t.kind = "dict" THEN get_param_values(params, <<>>, t.kwargs)
    ELSE get_param_values(params, <<t.value>>, <<>>)

\* bulk_complete that leaves the loop at the first incomplete instance
bulk_complete_StopsAtIncomplete(params, done, tuples) ==
    LET RECURSIVE Loop(_, _)
        Loop(i, generated_tuples) ==
            IF i > Len(tuples) THEN [outcome |-> "ok", value |-> generated_tuples]
            ELSE LET c == Construct(params, tuples[i])
                 IN  IF c.outcome # "ok" THEN c
                     ELSE IF done[c.values]
                          THEN Loop(i + 1, Append(generated_tuples, tuples[i]))
                          ELSE [outcome |-> "ok", value |-> generated_tuples]
    IN  Loop(1, <<>>)

\* bulk_complete: the list returned, or the exception of the first
\* construction that fails
bulk_complete(params, done, tuples) ==
    LET RECURSIVE Loop(_, _)
        Loop(i, generated_tuples) ==
            IF i > Len(tuples) THEN [outcome |-> "ok", value |-> generated_tuples]
            ELSE LET c == Construct(params, tuples[i])
                 IN  IF c.outcome # "ok" THEN c
                     ELSE IF done[c.values]
                          THEN Loop(i + 1, Append(generated_tuples, tuples[i]))
                          ELSE Loop(i + 1, generated_tuples)
    IN  Loop(1, <<>>)

KwEntry(k, v) == [key |-> k, val |-> v]

BulkElements ==
    {SeqTuple(<<>>)}
    \cup {SeqTuple(<<v>>) : v \in ParamValues}
    \cup {SeqTuple(<<v, w>>) : v \in ParamValues, w \in ParamValues}
    \cup {DictTuple(<<KwEntry("a", v)>>) : v \in ParamValues}
    \cup {DictTuple(<<KwEntry("b", w), KwEntry("a", v)>>) : v \in ParamValues, w \in ParamValues}
    \cup {DictTuple(<<KwEntry("a", v), KwEntry("c", v)>>) : v \in ParamValues}
    \cup {Single(v) : v \in ParamValues}

\* the instances of the class, as their (name, value) lists
BulkInstances ==
    {<<KwEntry("a", v), KwEntry("b", w)>> : v \in ParamValues, w \in ParamValues}

SeqsUpTo(S, n) == UNION {[1..k -> S] : k \in 0..n}

BulkInit ==
    /\ parameter_tuples \in SeqsUpTo(BulkElements, MaxTuples)
    /\ instDone \in [BulkInstances -> BOOLEAN]
    /\ bret = NotCalled

BulkIdle ==
    /\ parameter_tuples = <<>>
    /\ instDone = <<>>
    /\ bret = NotCalled

\* bret = cls.bulk_complete(parameter_tuples)
CallBulkComplete ==
    /\ ~bret.called
    /\ bret' = [called |-> TRUE] @@ bulk_complete(BulkParams, instDone, parameter_tuples)
    /\ UNCHANGED <<parameter_tuples, instDone, notBulk>>

BulkNext == CallBulkComplete

(***************************************************************************)
(* Task identity: to_str_params, task_id_str, Task.__init__, __eq__,       *)
(* __hash__.  A string is a sequence of one-character strings.             *)
(***************************************************************************)
TASK_ID_INCLUDE_PARAMS == 3
TASK_ID_TRUNCATE_PARAMS == 16
TASK_ID_TRUNCATE_HASH == 10

\* the printable ASCII characters, from code 32 on (the backslash and the
\* backtick, which no name or value of the model holds, are spelled out)
Printable ==
    <<
       " ", "!", "\"", "#", "$", "%", "&", "'", "(", ")", "*", "+", ",", "-", ".", "/",
       "0", "1", "2", "3", "4", "5", "6", "7", "8", "9", ":", ";", "<", "=", ">", "?",
       "@", "A", "B", "C", "D", "E", "F", "G", "H", "I", "J", "K", "L", "M", "N", "O",
       "P", "Q", "R", "S", "T", "U", "V", "W", "X", "Y", "Z", "[", "backslash", "]", "^", "_",
       "backtick", "a", "b", "c", "d", "e", "f", "g", "h", "i", "j", "k", "l", "m", "n", "o",
       "p", "q", "r", "s", "t", "u", "v", "w", "x", "y", "z", "{", "|", "}", "~" >>

CodeOf ==
    [c \in {Printable[i] : i \in 1..Len(Printable)} |->
       31 + CHOOSE i \in 1..Len(Printable) : Printable[i] = c]

Code(c) == CodeOf[c]

Take(chars, n) == SubSeq(chars, 1, IF Len(chars) < n THEN Len(chars) ELSE n)

RECURSIVE Join(_, _)
Join(sep, parts) ==
    IF parts = <<>> THEN <<>>
    ELSE IF Len(parts) = 1 THEN parts[1]
    ELSE parts[1] \o sep \o Join(sep, Tail(parts))

\* parameter values: integers and strings

RECURSIVE DecimalOf(_)
DecimalOf(n) ==
    IF n < 10 THEN <<Printable[n + 17]>>
    ELSE DecimalOf(n \div 10) \o <<Printable[(n % 10) + 17]>>

\* Parameter.serialize: str(x)
Serialize(v) ==
    IF v.type = "int"
    THEN IF v.n < 0 THEN <<"-">> \o DecimalOf(-v.n) ELSE DecimalOf(v.n)
    ELSE v.chars

ParamOf(params, n) == params[CHOOSE i \in 1..Len(params) : params[i].name = n]

\* to_str_params that serializes the insignificant parameters too
to_str_params_KeepsInsignificant(params, param_kwargs, only_significant, only_public) ==
    LET Kept(e) ==
            /\ (~only_public) \/ ParamOf(params, e.key).visibility = "PUBLIC"
            /\ ParamOf(params, e.key).visibility # "PRIVATE"
        kept == SelectSeq(param_kwargs, Kept)
    IN  [i \in 1..Len(kept) |-> [key |-> kept[i].key, val |-> Serialize(kept[i].val)]]

\* Task.to_str_params: name -> serialized value of the parameters kept
to_str_params(params, param_kwargs, only_significant, only_public) ==
    LET Kept(e) ==
            /\ (~only_significant) \/ ParamOf(params, e.key).significant
            /\ (~only_public) \/ ParamOf(params, e.key).visibility = "PUBLIC"
            /\ ParamOf(params, e.key).visibility # "PRIVATE"
        kept == SelectSeq(param_kwargs, Kept)
    IN  [i \in 1..Len(kept) |-> [key |-> kept[i].key, val |-> Serialize(kept[i].val)]]

\* sorted(params): the keys in ascending order (keys are one character long)
SortedKeys(d) ==
    LET Rank(k) == Cardinality({x \in Keys(d) : Code(x) < Code(k)})
    IN  [i \in 1..Len(d) |-> CHOOSE k \in Keys(d) : Rank(k) = i - 1]

\* json.dumps(params, separators=(',', ':'), sort_keys=True): the double
\* quote and the backslash of a string are escaped (ensure_ascii leaves the
\* other printable characters as they are)
JsonDumps(d) ==
    LET ks == SortedKeys(d)
        Escaped(c) == IF c = "\"" \/ c = "backslash" THEN <<"backslash", c>> ELSE <<c>>
        JsonStr(chars) ==
            <<"\"">> \o Join(<<>>, [i \in 1..Len(chars) |-> Escaped(chars[i])]) \o <<"\"">>
        Item(k) == JsonStr(<<k>>) \o <<":">> \o JsonStr(Get(d, k))
    IN  <<"{">> \o Join(<<",">>, [i \in 1..Len(ks) |-> Item(ks[i])]) \o <<"}">>

\* ---- machine words: sequences of 16-bit limbs, least significant first ----
\* a & b of two numbers of n bits
RECURSIVE BitAnd(_, _, _)
BitAnd(a, b, n) ==
    IF n = 0 THEN 0
    ELSE (a % 2) * (b % 2) + 2 * BitAnd(a \div 2, b \div 2, n - 1)

\* a & b of two bytes, tabulated
And8 == [a \in 0..255 |-> [b \in 0..255 |-> BitAnd(a, b, 8)]]

And16(a, b) == And8[a \div 256][b \div 256] * 256 + And8[a % 256][b % 256]

\* the words of md5 (32 bits) and of siphash (64 bits) are tuples of 2 and
\* of 4 limbs of 16 bits, the least significant first
AndAt(a, b, i) == And16(a[i], b[i])
LAnd(a, b) ==
    IF Len(a) = 2 THEN <<AndAt(a, b, 1), AndAt(a, b, 2)>>
    ELSE <<AndAt(a, b, 1), AndAt(a, b, 2), AndAt(a, b, 3), AndAt(a, b, 4)>>

LNot(a) ==
    IF Len(a) = 2 THEN <<65535 - a[1], 65535 - a[2]>>
    ELSE <<65535 - a[1], 65535 - a[2], 65535 - a[3], 65535 - a[4]>>

OrAt(a, b, i) == a[i] + b[i] - And16(a[i], b[i])
LOr(a, b) ==
    IF Len(a) = 2 THEN <<OrAt(a, b, 1), OrAt(a, b, 2)>>
    ELSE <<OrAt(a, b, 1), OrAt(a, b, 2), OrAt(a, b, 3), OrAt(a, b, 4)>>

XorAt(a, b, i) == a[i] + b[i] - 2 * And16(a[i], b[i])
LXor(a, b) ==
    IF Len(a) = 2 THEN <<XorAt(a, b, 1), XorAt(a, b, 2)>>
    ELSE <<XorAt(a, b, 1), XorAt(a, b, 2), XorAt(a, b, 3), XorAt(a, b, 4)>>

\* a + b modulo 2^(16 * Len(a))
RECURSIVE Carry(_, _, _)
Carry(a, b, i) == IF i = 0 THEN 0 ELSE (a[i] + b[i] + Carry(a, b, i - 1)) \div 65536
AddAt(a, b, i) == (a[i] + b[i] + Carry(a, b, i - 1)) % 65536
LAdd(a, b) ==
    IF Len(a) = 2 THEN <<AddAt(a, b, 1), AddAt(a, b, 2)>>
    ELSE <<AddAt(a, b, 1), AddAt(a, b, 2), AddAt(a, b, 3), AddAt(a, b, 4)>>

\* a rotated left by s bits: limb i takes the low bits of the limb s \div 16
\* places below it and the high bits of the one below that
RotlFrom(a, s, i) == a[((i - 1 - (s \div 16) + 2 * Len(a)) % Len(a)) + 1]
RotlAt(a, s, i) ==
    ((RotlFrom(a, s, i) * (2 ^ (s % 16))) % 65536)
    + (RotlFrom(a, s, i - 1) \div (2 ^ (16 - (s % 16))))
LRotl(a, s) ==
    IF Len(a) = 2 THEN <<RotlAt(a, s, 1), RotlAt(a, s, 2)>>
    ELSE <<RotlAt(a, s, 1), RotlAt(a, s, 2), RotlAt(a, s, 3), RotlAt(a, s, 4)>>

HexDigits == <<"0", "1", "2", "3", "4", "5", "6", "7", "8", "9", "a", "b", "c", "d", "e", "f">>

HexByte(n) == <<HexDigits[(n \div 16) + 1], HexDigits[(n % 16) + 1]>>

\* the constants of md5 (RFC 1321): floor(2^32 * abs(sin(i))) and the shifts
MD5_K ==
    << <<42104, 55146>>, <<46934, 59591>>, <<28891, 9248>>, <<52974, 49597>>,
       <<4015, 62844>>, <<50730, 18311>>, <<17939, 43056>>, <<38145, 64838>>,
       <<39128, 27008>>, <<63407, 35652>>, <<23473, 65535>>, <<55230, 35164>>,
       <<4386, 27536>>, <<29075, 64920>>, <<17294, 42617>>, <<2081, 18868>>,
       <<9570, 63006>>, <<45888, 49216>>, <<23121, 9822>>, <<51114, 59830>>,
       <<4189, 54831>>, <<5203, 580>>, <<59009, 55457>>, <<64456, 59347>>,
       <<52710, 8673>>, <<2006, 49975>>, <<3463, 62677>>, <<5357, 17754>>,
       <<59653, 43491>>, <<41976, 64751>>, <<729, 26479>>, <<19594, 36138>>,
       <<14658, 65530>>, <<63105, 34673>>, <<24866, 28061>>, <<14348, 64997>>,
       <<59972, 42174>>, <<53161, 19422>>, <<19296, 63163>>, <<48240, 48831>>,
       <<32454, 10395>>, <<10234, 60065>>, <<12421, 54511>>, <<7429, 1160>>,
       <<53305, 55764>>, <<39397, 59099>>, <<31992, 8098>>, <<22117, 50348>>,
       <<8772, 62505>>, <<65431, 17194>>, <<9127, 43924>>, <<41017, 64659>>,
       <<22979, 25947>>, <<52370, 36620>>, <<62589, 65519>>, <<24017, 34180>>,
       <<32335, 28584>>, <<59104, 65068>>, <<17172, 41729>>, <<4513, 19976>>,
       <<32386, 63315>>, <<62005, 48442>>, <<53947, 10967>>, <<54161, 60294>> >>

MD5_S ==
    << 7, 12, 17, 22, 7, 12, 17, 22, 7, 12, 17, 22, 7, 12, 17, 22,
       5, 9, 14, 20, 5, 9, 14, 20, 5, 9, 14, 20, 5, 9, 14, 20,
       4, 11, 16, 23, 4, 11, 16, 23, 4, 11, 16, 23, 4, 11, 16, 23,
       6, 10, 15, 21, 6, 10, 15, 21, 6, 10, 15, 21, 6, 10, 15, 21 >>

\* the function of the round of step i on the registers b, c, d
Md5F(i, b, c, d) ==
    IF i < 16 THEN LOr(LAnd(b, c), LAnd(LNot(b), d))
    ELSE IF i < 32 THEN LOr(LAnd(d, b), LAnd(LNot(d), c))
    ELSE IF i < 48 THEN LXor(LXor(b, c), d)
    ELSE LXor(c, LOr(b, LNot(d)))

\* the word of the block that step i reads
Md5G(i) ==
    IF i < 16 THEN i
    ELSE IF i < 32 THEN (5 * i + 1) % 16
    ELSE IF i < 48 THEN (3 * i + 5) % 16
    ELSE (7 * i) % 16

\* the 4 bytes of m after byte o, little endian
Md5Word(m, o) == <<m[o + 1] + 256 * m[o + 2], m[o + 3] + 256 * m[o + 4]>>

\* step i of the 64 steps of md5 on the block of the message m after byte
\* base: the registers a, b, c, d after it
Md5Step(m, base, i, st) ==
    << st[4],
       LAdd(st[2], LRotl(LAdd(LAdd(st[1], Md5F(i, st[2], st[3], st[4])),
                              LAdd(MD5_K[i + 1], Md5Word(m, base + 4 * Md5G(i)))),
                         MD5_S[i + 1])),
       st[2],
       st[3] >>

\* the steps from..(to - 1) of a block, by halves
RECURSIVE Md5Steps(_, _, _, _, _)
Md5Half(m, base, mid, to, half) ==
    IF half[1][1] >= 0 THEN Md5Steps(m, base, mid, to, half) ELSE half

Md5Steps(m, base, from, to, st) ==
    IF to = from + 1 THEN Md5Step(m, base, from, st)
    ELSE Md5Half(m, base, (from + to) \div 2, to,
                 Md5Steps(m, base, from, (from + to) \div 2, st))

\* the registers after a block: each plus its value before the block
Md5Sum(st, r) ==
    <<LAdd(st[1], r[1]), LAdd(st[2], r[2]), LAdd(st[3], r[3]), LAdd(st[4], r[4])>>

\* the blocks of 64 bytes, one after the other
RECURSIVE Md5Blocks(_, _, _)
Md5Blocks(m, base, st) ==
    IF base >= Len(m) THEN st
    ELSE Md5Blocks(m, base + 64, Md5Sum(st, Md5Steps(m, base, 0, 64, st)))

\* the message, the bit 1, zeros up to 56 modulo 64, the length in bits
Md5Pad(bytes) ==
    bytes \o <<128>> \o [i \in 1..((119 - Len(bytes)) % 64) |-> 0]
    \o << (8 * Len(bytes)) % 256, ((8 * Len(bytes)) \div 256) % 256,
          ((8 * Len(bytes)) \div 65536) % 256, 0, 0, 0, 0, 0 >>

\* the 8 hex digits of a register, its bytes little endian
HexWord(x) ==
    HexByte(x[1] % 256) \o HexByte(x[1] \div 256)
    \o HexByte(x[2] % 256) \o HexByte(x[2] \div 256)

HexDigest(st) == HexWord(st[1]) \o HexWord(st[2]) \o HexWord(st[3]) \o HexWord(st[4])

\* hashlib.new('md5', chars.encode('utf-8')).hexdigest()
Md5Hex(chars) ==
    HexDigest(Md5Blocks(Md5Pad([i \in 1..Len(chars) |-> Code(chars[i])]), 0,
                        <<<<8961, 26437>>, <<43913, 61389>>,
                          <<56574, 39098>>, <<21622, 4146>>>>))

\* the values of PYTHONHASHSEED: 0 switches the randomization off
HashSeeds == {0, 1}

\* lcg_urandom of bootstrap_hash.c: x = x * 214013 + 2531011 modulo 2^32,
\* each byte drawn is (x >> 16) & 0xff
Lcg(x) ==
    << (x[1] * 17405 + 40643) % 65536,
       (x[2] * 17405 + x[1] * 3 + 38 + ((x[1] * 17405 + 40643) \div 65536)) % 65536 >>

RECURSIVE LcgBytes(_, _)
LcgDraw(x, k) == <<x[2] % 256>> \o LcgBytes(x, k - 1)
LcgBytes(x, k) == IF k = 0 THEN <<>> ELSE LcgDraw(Lcg(x), k)

\* the 8 bytes after byte o, little endian, zeros after the end
ByteAt(bytes, i) == IF i <= Len(bytes) THEN bytes[i] ELSE 0
Le64(bytes, o) ==
    << ByteAt(bytes, o + 1) + 256 * ByteAt(bytes, o + 2),
       ByteAt(bytes, o + 3) + 256 * ByteAt(bytes, o + 4),
       ByteAt(bytes, o + 5) + 256 * ByteAt(bytes, o + 6),
       ByteAt(bytes, o + 7) + 256 * ByteAt(bytes, o + 8) >>

\* _Py_HashSecret: the siphash key k0, k1 of the process, the first 16 bytes
\* that lcg_urandom draws from the seed, all 0 for the seed 0
SecretOf(bytes) == [k0 |-> Le64(bytes, 0), k1 |-> Le64(bytes, 8)]
HashSecret ==
    [seed \in HashSeeds |->
        SecretOf(IF seed = 0 THEN <<>>
                 ELSE LcgBytes(<<seed % 65536, seed \div 65536>>, 16))]

\* HALF_ROUND of pyhash.c on the words a, b, c, d of x
HalfRoundSet(x, a, b, c, d, s, t, va, vc) ==
    [x EXCEPT ![a] = LRotl(va, 32), ![c] = vc,
              ![b] = LXor(LRotl(x[b], s), va), ![d] = LXor(LRotl(x[d], t), vc)]
HalfRound(x, a, b, c, d, s, t) ==
    HalfRoundSet(x, a, b, c, d, s, t, LAdd(x[a], x[b]), LAdd(x[c], x[d]))

\* SINGLE_ROUND of pyhash.c on v0..v3
SipRound(v) == HalfRound(HalfRound(v, 1, 2, 3, 4, 13, 16), 3, 2, 1, 4, 17, 21)

\* v3 ^= mi; SINGLE_ROUND; v0 ^= mi
SipXor(v, k, mi) == [v EXCEPT ![k] = LXor(v[k], mi)]
SipMix(v, mi) == SipXor(SipRound(SipXor(v, 4, mi)), 1, mi)

\* the loop over the full 8-byte words
RECURSIVE SipWords(_, _, _)
SipWords(bytes, o, v) ==
    IF Len(bytes) - o < 8 THEN v
    ELSE SipWords(bytes, o + 8, SipMix(v, Le64(bytes, o)))

\* the last word: the bytes left over and the length in the top byte
SipLast(bytes) ==
    [Le64(bytes, 8 * (Len(bytes) \div 8)) EXCEPT ![4] = @ + 256 * (Len(bytes) % 256)]

SipFold(v) == LXor(LXor(v[1], v[2]), LXor(v[3], v[4]))

\* siphash13(k0, k1, src, src_sz) of pyhash.c: a 64-bit word
siphash13(k0, k1, bytes) ==
    SipFold(SipRound(SipRound(SipRound(
        SipXor(SipMix(SipWords(bytes, 0,
                               << LXor(k0, <<25973, 28787, 28005, 29551>>),
                                  LXor(k1, <<28525, 28260, 29281, 25711>>),
                                  LXor(k0, <<29281, 28261, 26469, 27769>>),
                                  LXor(k1, <<25971, 31092, 25698, 29797>>) >>),
                      SipLast(bytes)),
               3, <<255, 0, 0, 0>>)))))

\* x \div 10 and x % 10 of a word, from limb i upwards
RECURSIVE DivTen(_, _)
DivTenAt(x, i, up) ==
    <<<<(up[2] * 65536 + x[i]) \div 10>> \o up[1], (up[2] * 65536 + x[i]) % 10>>
DivTen(x, i) == IF i > 4 THEN <<<<>>, 0>> ELSE DivTenAt(x, i, DivTen(x, i + 1))

\* the decimal digits of a word that is not 0
RECURSIVE Digits(_)
DigitsOf(qr) == Digits(qr[1]) \o DecimalOf(qr[2])
Digits(x) == IF x = <<0, 0, 0, 0>> THEN <<>> ELSE DigitsOf(DivTen(x, 1))

\* str() of the word h read as a signed 64-bit number, -2 in place of -1
SignedStr(h) ==
    IF h = <<0, 0, 0, 0>> THEN <<"0">>
    ELSE IF h = <<65535, 65535, 65535, 65535>> THEN <<"-", "2">>
    ELSE IF h[4] >= 32768 THEN <<"-">> \o Digits(LAdd(LNot(h), <<1, 0, 0, 0>>))
    ELSE Digits(h)

\* hash(chars) of a str in a process of the seed, as str() prints it: 0 for
\* the empty string, else the siphash13 of its bytes
PyHash(seed, chars) ==
    IF chars = <<>> THEN <<"0">>
    ELSE SignedStr(siphash13(HashSecret[seed].k0, HashSecret[seed].k1,
                             [i \in 1..Len(chars) |-> Code(chars[i])] \o <<>>))

\* TASK_ID_INVALID_CHAR_REGEX.sub('_', chars)
SubInvalid(chars) ==
    LET Valid(c) == \/ Code(c) \in 48..57
                    \/ Code(c) \in 65..90
                    \/ Code(c) \in 97..122
                    \/ c = "_"
    IN  [i \in 1..Len(chars) |-> IF Valid(chars[i]) THEN chars[i] ELSE "_"]

task_id_str(task_family, params) ==
    LET param_str == JsonDumps(params)
        param_hash == Md5Hex(param_str)
        first == Take(SortedKeys(params), TASK_ID_INCLUDE_PARAMS)
        param_summary ==
            SubInvalid(Join(<<"_">>, [i \in 1..Len(first) |->
                                        Take(Get(params, first[i]), TASK_ID_TRUNCATE_PARAMS)]))
    IN  task_family \o <<"_">> \o param_summary \o <<"_">>
        \o Take(param_hash, TASK_ID_TRUNCATE_HASH)

\* Task.__init__ in a process of the seed: the instance, or the exception
\* of get_param_values
TaskNew(seed, family, params, args, kwargs) ==
    LET pv == get_param_values(params, args, kwargs)
    IN  IF pv.outcome # "ok" THEN [built |-> FALSE, outcome |-> pv.outcome]
        ELSE LET id == task_id_str(family, to_str_params(params, pv.values, TRUE, TRUE))
             IN  [built |-> TRUE, outcome |-> "ok", cls |-> family,
                  param_kwargs |-> pv.values, task_id |-> id, hash |-> PyHash(seed, id)]

\* Task.__eq__
TaskEq(t1, t2) == t1.cls = t2.cls /\ t1.task_id = t2.task_id

\* Task.__hash__
TaskHash(t) == t.hash

Family == <<"T">>
Slots == {1, 2}
NotBuilt == [built |-> FALSE, outcome |-> "none"]
\* 17 characters, a double quote and a backslash among the first 16
LongStr(last) ==
    [i \in 1..17 |-> IF i = 17 THEN last
                     ELSE IF i = 15 THEN "\""
                     ELSE IF i = 16 THEN "backslash"
                     ELSE "z"]
IdValues == {IntVal(-12), StrVal(LongStr("p")), StrVal(LongStr("q"))}
IdNames == <<"a", "b">>

\* the definitions: every parameter is significant or not, and public,
\* hidden or private
IdInit ==
    /\ cdef \in {[i \in DOMAIN IdNames |->
                     Param(IdNames[i], TRUE, sg[i], vs[i], FALSE, IntVal(0))] :
                   sg \in [DOMAIN IdNames -> BOOLEAN],
                   vs \in [DOMAIN IdNames -> {"PUBLIC", "HIDDEN", "PRIVATE"}]}
    /\ inst = [k \in Slots |-> NotBuilt]
    /\ hashseed \in HashSeeds

IdIdle ==
    /\ cdef = <<>>
    /\ inst = <<>>
    /\ hashseed = 0

\* inst[k] = cls(**kwargs)
NewTask(k, values) ==
    /\ ~inst[k].built
    /\ inst' = [inst EXCEPT ![k] =
                  TaskNew(hashseed, Family, cdef, <<>>,
                          [i \in DOMAIN IdNames |-> KwEntry(IdNames[i], values[i])])]
    /\ UNCHANGED <<cdef, hashseed, notId>>

IdNext == \E k \in Slots, values \in [DOMAIN IdNames -> IdValues] : NewTask(k, values)

(***************************************************************************)
(* getpaths                                                                *)
(***************************************************************************)
PathTasks == {1, 2, 3}
TaskItself == 3    \* the task that is an instance of Task itself, Task(): the others
                   \* are instances of subclasses of Task

\* s is a task whose class is Task: isinstance(s, Task) answers without
\* asking the metaclass
IsTaskItself(s) == s.tag = "task" /\ s.id = TaskItself

TaskRef(t) == [tag |-> "task", id |-> t]
Tuple(items) == [tag |-> "tuple", items |-> items]
\* an iterable that is neither dict, list, tuple nor str: a generator
Iter(items) == [tag |-> "iter", items |-> items]

\* iterating a str yields its characters, each a str of length one
StrChars(s) ==
    CASE s = "" -> <<>>
      [] s = "a" -> <<Str("a")>>
      [] s = "foo" -> <<Str("f"), Str("o"), Str("o")>>
      [] OTHER -> <<Str(s)>>           \* a single character

\* struct.__class__ of the result: dict, list and tuple keep their class,
\* any other iterable becomes a list
Rebuild(s, items) ==
    IF s.tag = "dict" THEN [s EXCEPT !.items = items]
    ELSE IF s.tag = "tuple" THEN Tuple(items)
    ELSE List(items)

RECURSIVE getpaths_PassesLeaves(_, _, _, _)
RECURSIVE getpaths_WrapsOutput(_, _, _, _)
RECURSIVE getpaths(_, _, _, _)

\* the classes of the nodes of a structure
RECURSIVE ClassesIn(_)
ClassesIn(s) ==
    {s.tag} \cup (IF s.tag \in {"dict", "list", "tuple", "iter"}
                  THEN UNION {ClassesIn(s.items[i]) : i \in 1..Len(s.items)}
                  ELSE {})

\* the calls of getpaths that getpaths(struct) makes when nothing raises: one
\* for every node
RECURSIVE Nodes(_)
RECURSIVE NodesOf(_, _)
NodesOf(items, i) ==
    IF i > Len(items) THEN 0 ELSE Nodes(items[i]) + NodesOf(items, i + 1)

Nodes(s) ==
    1 + (IF s.tag \in {"dict", "list", "tuple", "iter"} THEN NodesOf(s.items, 1) ELSE 0)

\* a count of runs, as far as it matters: up to Warmup
Runs(n) == IF n < Warmup THEN n ELSE Warmup

\* the runs of the __instancecheck__ of the metaclass that getpaths(struct)
\* makes when nothing raises: one for every node but the instances of Task
\* itself
RECURSIVE Checks(_)
RECURSIVE ChecksOf(_, _)
ChecksOf(items, i) ==
    IF i > Len(items) THEN 0 ELSE Checks(items[i]) + ChecksOf(items, i + 1)

Checks(s) ==
    IF IsTaskItself(s) THEN 0
    ELSE 1 + (IF s.tag \in {"dict", "list", "tuple", "iter"} THEN ChecksOf(s.items, 1) ELSE 0)

\* the process after the isinstance check of getpaths(s): getpaths ran once
\* more and, unless s is an instance of Task itself, so did the
\* __instancecheck__ of the metaclass, and the check has an answer for the
\* class of s
Checked(process, s) ==
    IF IsTaskItself(s) THEN [process EXCEPT !.ran = Runs(@ + 1)]
    ELSE [process EXCEPT !.checked = @ \cup {s.tag},
                         !.ran = Runs(@ + 1), !.checks = Runs(@ + 1)]

\* the process after getpaths(s) returned
After(process, s) ==
    [process EXCEPT !.checked = @ \cup (ClassesIn(s) \ {"task"}),
                    !.ran = Runs(@ + Nodes(s)), !.checks = Runs(@ + Checks(s))]

\* the frames lines 929-930 need above the frame of getpaths. For an
\* instance of Task itself isinstance answers at once, and the frame is the
\* one of output(). Else they are the frames of isinstance(struct, Task):
\* those of a class the check has an answer for (the class of a task, or one
\* of checked, the classes it was asked about before) or those of the first
\* check of a class, that asks the subclasses of Task; one more while
\* getpaths, and one more while the __instancecheck__ of the metaclass, ran
\* fewer than Warmup times in the process
CheckFrames(s, process) ==
    IF IsTaskItself(s) THEN OutputFrames
    ELSE (IF s.tag = "task" \/ s.tag \in process.checked THEN InstanceCheckFrames
          ELSE FirstCheckFrames(process.hierarchy))
         + (IF process.ran < Warmup THEN ColdCallFrames ELSE 0)
         + (IF process.checks < Warmup THEN ColdCallFrames ELSE 0)

\* the comprehension of getpaths over the elements: the mapped elements, or
\* the first exception one of them raises
RECURSIVE MapPaths(_, _, _, _, _)
MapPaths(outs, items, i, depth, process) ==
    IF i > Len(items) THEN [outcome |-> "ok", value |-> <<>>]
    ELSE LET head == getpaths(outs, items[i], depth, process)
         IN  IF head.outcome # "ok" THEN head
             ELSE LET rest == MapPaths(outs, items, i + 1, depth,
                                       After(process, items[i]))
                  IN  IF rest.outcome # "ok" THEN rest
                      ELSE [outcome |-> "ok", value |-> <<head.value>> \o rest.value]

\* getpaths that hands back a leaf it cannot iterate instead of raising
getpaths_PassesLeaves(outs, s, depth, process) ==
    IF depth + CheckFrames(s, process) > RecursionLimit THEN Raise("RecursionError")
    ELSE IF s.tag = "task" THEN [outcome |-> "ok", value |-> outs[s.id]]
    ELSE IF s.tag \in {"None", "atom"} THEN [outcome |-> "ok", value |-> s]
    ELSE IF s.tag = "str" /\ StrChars(s.s) = <<s>>
    THEN getpaths_PassesLeaves(outs, s, RecursionLimit + 1, process)
    ELSE LET items == IF s.tag = "str" THEN StrChars(s.s) ELSE s.items
             mapped == MapPaths(outs, items, 1, depth + 2, Checked(process, s))
         IN  IF mapped.outcome # "ok" THEN mapped
             ELSE [outcome |-> "ok", value |-> Rebuild(s, mapped.value)]

\* getpaths that wraps the output of a task in a list
getpaths_WrapsOutput(outs, s, depth, process) ==
    IF depth + CheckFrames(s, process) > RecursionLimit THEN Raise("RecursionError")
    ELSE IF s.tag = "task" THEN [outcome |-> "ok", value |-> List(<<outs[s.id]>>)]
    ELSE IF s.tag \in {"None", "atom"} THEN Raise("Exception")
    ELSE IF s.tag = "str" /\ StrChars(s.s) = <<s>>
    THEN getpaths_WrapsOutput(outs, s, RecursionLimit + 1, process)
    ELSE LET items == IF s.tag = "str" THEN StrChars(s.s) ELSE s.items
             mapped == MapPaths(outs, items, 1, depth + 2, Checked(process, s))
         IN  IF mapped.outcome # "ok" THEN mapped
             ELSE [outcome |-> "ok", value |-> Rebuild(s, mapped.value)]

\* getpaths(struct), its frame being the depth-th of the call stack, in a
\* process that is described by the classes isinstance(_, Task) was asked
\* about before (checked), the levels of subclasses below Task (hierarchy)
\* and the times getpaths (ran) and the __instancecheck__ of the metaclass
\* (checks) ran before: the value returned or the exception raised. Every level of nesting takes two
\* frames, the one of getpaths and the one of the generator expression or
\* list comprehension that calls it (lines 931, 933, 937)
getpaths(outs, s, depth, process) ==
    IF depth + CheckFrames(s, process) > RecursionLimit THEN Raise("RecursionError")
    ELSE IF s.tag = "task" THEN [outcome |-> "ok", value |-> outs[s.id]]
    ELSE IF s.tag \in {"dict", "list", "tuple"}
    THEN LET mapped == MapPaths(outs, s.items, 1, depth + 2, Checked(process, s))
         IN  IF mapped.outcome # "ok" THEN mapped
             ELSE [outcome |-> "ok", value |-> Rebuild(s, mapped.value)]
    ELSE IF s.tag = "str" /\ StrChars(s.s) = <<s>>
    THEN \* the only element of a one-character string is the string itself:
         \* the call repeats on its own argument, two frames deeper each
         \* time, until the stack is full
         getpaths(outs, s, RecursionLimit + 1, process)
    ELSE IF s.tag \in {"str", "iter"}   \* iterable: the else branch succeeds
    THEN LET items == IF s.tag = "str" THEN StrChars(s.s) ELSE s.items
             mapped == MapPaths(outs, items, 1, depth + 2, Checked(process, s))
         IN  IF mapped.outcome # "ok" THEN mapped
             ELSE [outcome |-> "ok", value |-> Rebuild(s, mapped.value)]
    ELSE Raise("Exception")             \* TypeError caught, Exception raised

\* the elements the comprehension took from a generator: all of them, or
\* those up to the first one on which getpaths raised
RECURSIVE Taken(_, _, _, _, _)
Taken(outs, items, i, depth, process) ==
    IF i > Len(items) THEN Len(items)
    ELSE IF getpaths(outs, items[i], depth, process).outcome = "ok"
    THEN Taken(outs, items, i + 1, depth, After(process, items[i]))
    ELSE i

\* the argument as getpaths(struct) leaves it: a generator it iterated has
\* lost the elements taken from it, every other object is as it was
RECURSIVE Consumed(_, _, _, _)
RECURSIVE ConsumedItems(_, _, _, _, _)
ConsumedItems(outs, items, i, depth, process) ==
    IF i > Len(items) THEN <<>>
    ELSE <<Consumed(outs, items[i], depth, process)>>
         \o (IF getpaths(outs, items[i], depth, process).outcome = "ok"
             THEN ConsumedItems(outs, items, i + 1, depth, After(process, items[i]))
             ELSE SubSeq(items, i + 1, Len(items)))

Consumed(outs, s, depth, process) ==
    IF s.tag \notin {"dict", "list", "tuple", "iter"} THEN s
    ELSE IF depth + CheckFrames(s, process) > RecursionLimit THEN s
    ELSE IF s.tag = "iter"
    THEN Iter(SubSeq(s.items,
                     Taken(outs, s.items, 1, depth + 2, Checked(process, s)) + 1,
                     Len(s.items)))
    ELSE [s EXCEPT !.items = ConsumedItems(outs, s.items, 1, depth + 2,
                                           Checked(process, s))]

\* all structures of exactly n nodes built from lists, tuples, dicts and
\* generators
RECURSIVE PathTree(_, _), PathForest(_, _)
PathTree(n, leaves) ==
    IF n = 0 THEN {}
    ELSE (IF n = 1 THEN leaves ELSE {})
         \cup {List(f) : f \in PathForest(n - 1, leaves)}
         \cup {Tuple(f) : f \in PathForest(n - 1, leaves)}
         \cup {Iter(f) : f \in PathForest(n - 1, leaves)}
         \cup {Dict(f) : f \in PathForest(n - 1, leaves)}

PathForest(n, leaves) ==
    IF n = 0 THEN {<<>>}
    ELSE UNION {{<<t>> \o f : t \in PathTree(k, leaves), f \in PathForest(n - k, leaves)} :
                  k \in 1..n}

PathLeaves == {None, Atom(0), Str(""), Str("a")} \cup {TaskRef(t) : t \in PathTasks}

\* what a task's output() can return
OutputShapes ==
    {NoOutput, Atom(1), List(<<Atom(1), Atom(2)>>), Dict(<<Atom(2)>>)}

PathInit ==
    /\ gstruct \in UNION {PathTree(k, PathLeaves) : k \in 1..PathNodes}
    /\ goutput \in {outs \in [PathTasks -> OutputShapes] : outs[TaskItself] = NoOutput}
    /\ gret = NotCalled

PathIdle ==
    /\ gstruct = None
    /\ goutput = <<>>
    /\ gret = NotCalled

\* the frames getpaths can be called from: the top of a script, or a frame
\* that leaves up to MaxHeadroom frames of the call stack
Callers == {1} \cup {RecursionLimit - k : k \in 1..MaxHeadroom}

\* the levels of subclasses below Task in the process: those of task.py
\* alone, or those of the deepest chain of task classes
Hierarchies == {1, MaxHierarchy}

\* what the process did before the call: isinstance(_, Task) was asked about
\* the classes checked, getpaths ran ran times (on instances of Task itself,
\* if the __instancecheck__ of the metaclass ran less often) and the
\* __instancecheck__ of the metaclass once for every class checked, or
\* Warmup times
Processes(classes) ==
    UNION {{[checked |-> checked, hierarchy |-> hierarchy, ran |-> ran, checks |-> checks] :
               checks \in {Cardinality(checked), Warmup}} :
             checked \in SUBSET classes, hierarchy \in Hierarchies,
             ran \in {0, Warmup - 1, Warmup}}

\* gret = getpaths(gstruct), called from the caller-th frame of the stack in
\* the given process. gret keeps the argument as it was given, gstruct is
\* the argument as the call leaves it
CallGetpaths(caller, process) ==
    /\ ~gret.called
    /\ gret' = [called |-> TRUE, struct |-> gstruct, caller |-> caller,
                hierarchy |-> process.hierarchy]
               @@ getpaths(goutput, gstruct, caller + 1, process)
    /\ gstruct' = Consumed(goutput, gstruct, caller + 1, process)
    /\ UNCHANGED <<goutput, notPath>>

PathNext ==
    \E caller \in Callers, process \in Processes(ClassesIn(gstruct) \ {"task"}) :
        CallGetpaths(caller, process)

(***************************************************************************)
(* flatten_output                                                          *)
(***************************************************************************)
\* a task of the graph: what output() and requires() return
WalkTask(out, req) == [output |-> out, requires |-> req]

\* one iteration of the while loop, with a stack in place of the deque
ProcessTask_PopsRight(ts, queue, outs) ==
    LET current_task == queue[Len(queue)]
        rest == SubSeq(queue, 1, Len(queue) - 1)
    IN  IF flatten(ts[current_task].output) # <<>>
        THEN [queue |-> rest,
              output_tasks |-> IF \E i \in 1..Len(outs) : outs[i] = current_task
                               THEN outs ELSE Append(outs, current_task),
              current |-> current_task, expands |-> FALSE]
        ELSE [queue |-> rest \o [i \in 1..Len(flatten(ts[current_task].requires)) |->
                                   flatten(ts[current_task].requires)[i].id],
              output_tasks |-> outs,
              current |-> current_task, expands |-> TRUE]

\* one iteration of the while loop: popleft, then record the task or extend
\* the deque by its requirements
ProcessTask(ts, queue, outs) ==
    LET current_task == Head(queue)
        rest == Tail(queue)
    IN  IF flatten(ts[current_task].output) # <<>>
        THEN [queue |-> rest,
              output_tasks |-> IF \E i \in 1..Len(outs) : outs[i] = current_task
                               THEN outs ELSE Append(outs, current_task),
              current |-> current_task, expands |-> FALSE]
        ELSE [queue |-> rest \o [i \in 1..Len(flatten(ts[current_task].requires)) |->
                                   flatten(ts[current_task].requires)[i].id],
              output_tasks |-> outs,
              current |-> current_task, expands |-> TRUE]

\* the return statement: flatten(task.output() for task in output_tasks)
WalkResult(ts, outs) == flatten(List([i \in 1..Len(outs) |-> ts[outs[i]].output]))

\* what requires() of an output-less task can return: up to two tasks,
\* itself and the tasks that require it included
WalkRequires ==
    {List(<<>>)}
    \cup {List(<<TaskRef(j)>>) : j \in 1..WalkTasks}
    \cup {List(<<TaskRef(pr[1]), TaskRef(pr[2])>>) :
            pr \in {q \in (1..WalkTasks) \X (1..WalkTasks) : q[1] # q[2]}}

WalkChoices(t) ==
    {WalkTask(NoOutput, req) : req \in WalkRequires}
    \cup {WalkTask(Atom(o), req) :
            o \in Targets, req \in {List(<<>>), List(<<TaskRef(1 + (t % WalkTasks))>>)}}

\* the task the walk starts from; every graph around it is enumerated
WalkRoots == {1}

RECURSIVE WalkGraphs(_)
WalkGraphs(t) ==
    IF t = 0 THEN {<<>>}
    ELSE {Append(g, c) : g \in WalkGraphs(t - 1), c \in WalkChoices(t)}

WalkInit ==
    /\ ftasks \in WalkGraphs(WalkTasks)
    /\ froot = 0
    /\ tasks_to_process = <<>>
    /\ output_tasks = <<>>
    /\ fpc = "idle"
    /\ dequeues = [t \in 1..WalkTasks |-> 0]
    /\ expanded = {}
    /\ fret = <<>>

WalkIdle ==
    /\ ftasks = <<>>
    /\ froot = 0
    /\ tasks_to_process = <<>>
    /\ output_tasks = <<>>
    /\ fpc = "idle"
    /\ dequeues = <<>>
    /\ expanded = {}
    /\ fret = <<>>

\* flatten_output(task) is entered
CallFlattenOutput(task) ==
    /\ fpc = "idle"
    /\ froot' = task
    /\ tasks_to_process' = <<task>>
    /\ output_tasks' = <<>>
    /\ fpc' = "loop"
    /\ UNCHANGED <<ftasks, dequeues, expanded, fret, notWalk>>

\* one iteration of the while loop
WalkStep ==
    /\ fpc = "loop"
    /\ tasks_to_process # <<>>
    /\ dequeues[Head(tasks_to_process)] < MaxDequeues
    /\ LET step == ProcessTask(ftasks, tasks_to_process, output_tasks)
       IN  /\ tasks_to_process' = step.queue
           /\ output_tasks' = step.output_tasks
           /\ dequeues' = [dequeues EXCEPT ![step.current] = @ + 1]
           /\ expanded' = IF step.expands THEN expanded \cup {step.current} ELSE expanded
    /\ UNCHANGED <<ftasks, froot, fpc, fret, notWalk>>

\* the deque is empty: flatten_output returns
WalkReturn ==
    /\ fpc = "loop"
    /\ tasks_to_process = <<>>
    /\ fret' = WalkResult(ftasks, output_tasks)
    /\ fpc' = "done"
    /\ UNCHANGED <<ftasks, froot, tasks_to_process, output_tasks, dequeues, expanded, notWalk>>

WalkNext ==
    \/ \E task \in WalkRoots : CallFlattenOutput(task)
    \/ WalkStep
    \/ WalkReturn

(***************************************************************************)
(* Task.get_param_values on a class: the values and the warnings about     *)
(* unconsumed configuration keys.  Names, families and keys are sequences  *)
(* of characters.                                                          *)
(***************************************************************************)
\* a task class: its family, its base class (0: Task itself), its declared
\* parameters and its ignore_unconsumed attribute
TaskClass(family, base, params, ignore) ==
    [family |-> family, base |-> base, params |-> params, ignore_unconsumed |-> ignore]

NoAttr == [present |-> FALSE]
Attr(keys) == [present |-> TRUE, keys |-> keys]

NoSection == [present |-> FALSE]
Section(keys) == [present |-> TRUE, keys |-> keys]

\* str.replace for single characters
Replace(chars, from, to) ==
    [i \in 1..Len(chars) |-> IF chars[i] = from THEN to ELSE chars[i]]

\* the class whose namespace holds _unconsumed_params when it is read
\* through cls: cls itself or the nearest base class, 0 if none
RECURSIVE AttrOwner(_, _, _)
AttrOwner(classes, memo, cls) ==
    IF cls = 0 THEN 0
    ELSE IF memo[cls].present THEN cls
    ELSE AttrOwner(classes, memo, classes[cls].base)

\* the loop over the section: the composite keys recorded and the warnings
\* emitted from key i on
RECURSIVE UnconsumedLoop(_, _, _, _, _, _)
UnconsumedLoop(task_family, keys, i, result, ignore_unconsumed, recorded) ==
    IF i > Len(keys) THEN [recorded |-> recorded, warnings |-> <<>>]
    ELSE LET key == Replace(keys[i], "-", "_")
             composite_key == task_family \o <<"_">> \o key
         IN  IF /\ key \notin result
                /\ key \notin ignore_unconsumed
                /\ composite_key \notin recorded
             THEN LET rest == UnconsumedLoop(task_family, keys, i + 1, result,
                                             ignore_unconsumed,
                                             recorded \cup {composite_key})
                  IN  [recorded |-> rest.recorded,
                       warnings |-> <<[family |-> task_family, key |-> key]>>
                                    \o rest.warnings]
             ELSE UnconsumedLoop(task_family, keys, i + 1, result,
                                 ignore_unconsumed, recorded)

\* lines 420-436: the check for unconsumed parameters, given the names in
\* result: the _unconsumed_params attributes afterwards and the warnings
unconsumed_check(classes, cf, memo, cls, result) ==
    LET created == IF AttrOwner(classes, memo, cls) = 0
                   THEN [memo EXCEPT ![cls] = Attr({})]
                   ELSE memo
        owner == AttrOwner(classes, created, cls)
        task_family == classes[cls].family
    IN  IF ~cf[task_family].present THEN [memo |-> created, warnings |-> <<>>]
        ELSE LET loop == UnconsumedLoop(task_family, cf[task_family].keys, 1, result,
                                        classes[cls].ignore_unconsumed,
                                        created[owner].keys)
             IN  [memo |-> [created EXCEPT ![owner] = Attr(loop.recorded)],
                  warnings |-> loop.warnings]

\* the names of the declared parameters, and a name that is not declared
PNames == [i \in 1..NumParams |-> <<Printable[65 + i]>>]
Undeclared == <<"z">>

\* every declaration of NumParams parameters: positional or keyword-only,
\* without a default, with one (a list), or with one that cannot be parsed
ParamDecls ==
    {[i \in 1..NumParams |->
        IF dflt[i] = "broken"
        THEN BrokenDefault(Param(PNames[i], pos[i], TRUE, "PUBLIC", FALSE, IntVal(0)))
        ELSE Param(PNames[i], pos[i], TRUE, "PUBLIC", dflt[i] = "static",
                   ListVal(<<IntVal(7)>>))] :
       pos \in [1..NumParams -> BOOLEAN],
       dflt \in [1..NumParams -> {"none", "static", "broken"}]}

Families == {<<"T">>, <<"U">>}

\* the positional arguments of a call on a class: up to one more than it
\* declares parameters, the i-th argument being the value i, or the one
\* argument [1, 2]
ArgChoices(params) ==
    {[i \in 1..k |-> IntVal(i)] : k \in 0..(Len(params) + 1)}
    \cup {<<ListVal(<<IntVal(1), IntVal(2)>>)>>}

\* the keyword arguments of a call on a class: a dict of up to two entries
\* over the declared names and one that is not declared
KwChoices(params) ==
    LET names == ParamNames(params) \cup {Undeclared}
    IN  {<<>>} \cup {<<KwEntry(n, SetVal(<<IntVal(9)>>))>> : n \in names}
        \cup {<<KwEntry(pr[1], IntVal(8)), KwEntry(pr[2], TupleVal(<<IntVal(9)>>))>> :
                pr \in {q \in names \X names : q[1] # q[2]}}

\* one class with any declaration, no configuration section
ParamInit ==
    /\ pclasses \in {<<TaskClass(<<"T">>, 0, params, {})>> : params \in ParamDecls}
    /\ conf = [f \in Families |-> NoSection]
    /\ unconsumed_params = <<NoAttr>>
    /\ warned = <<>>
    /\ pret = NotCalled

\* a class of family T, a subclass of it with another family that ignores
\* one key, and a second definition of family T
UnconsumedClasses ==
    LET a == Param(<<"a">>, TRUE, TRUE, "PUBLIC", TRUE, IntVal(0))
    IN  << TaskClass(<<"T">>, 0, <<a>>, {}),
           TaskClass(<<"U">>, 1, <<a>>, {<<"x">>}),
           TaskClass(<<"T">>, 0, <<a>>, {}) >>

\* the sections a family can have in the configuration
SectionChoices ==
    {NoSection, Section(<<<<"x">>>>),
     Section(<< <<"x", "-", "y">>, <<"a">>, <<"x", "_", "y">>, <<"x">> >>)}

UnconsumedInit ==
    /\ pclasses = UnconsumedClasses
    /\ conf \in [Families -> SectionChoices]
    /\ unconsumed_params = [c \in 1..Len(UnconsumedClasses) |-> NoAttr]
    /\ warned = <<>>
    /\ pret = NotCalled

ParamIdle ==
    /\ pclasses = <<>>
    /\ conf = <<>>
    /\ unconsumed_params = <<>>
    /\ warned = <<>>
    /\ pret = NotCalled

\* pret = cls.get_param_values(cls.get_params(), args, kwargs)
CallGetParamValues(cls, args, kwargs) ==
    /\ LET r == get_param_values(pclasses[cls].params, args, kwargs)
           call == [called |-> TRUE, cls |-> cls, args |-> args, kwargs |-> kwargs]
       IN  IF r.outcome # "ok"
           THEN /\ pret' = call @@ r @@ [warnings |-> <<>>]
                /\ UNCHANGED <<unconsumed_params, warned>>
           ELSE LET u == unconsumed_check(pclasses, conf, unconsumed_params, cls,
                                          {r.values[i].key : i \in 1..Len(r.values)})
                IN  /\ unconsumed_params' = u.memo
                    /\ warned' = warned \o [i \in 1..Len(u.warnings) |->
                                               u.warnings[i] @@ [cls |-> cls]]
                    /\ pret' = call @@ r @@ [warnings |-> u.warnings]
    /\ UNCHANGED <<pclasses, conf, notParam>>

ParamNext ==
    \E cls \in DOMAIN pclasses :
        \E args \in ArgChoices(pclasses[cls].params),
           kwargs \in KwChoices(pclasses[cls].params) :
            CallGetParamValues(cls, args, kwargs)

(***************************************************************************)
(* Task.event_handler, Task.remove_event_handler, Task.trigger_event       *)
(***************************************************************************)
\* two task classes: class 2 is a subclass of class 1
EventClasses == {1, 2}
IsInstance(cls, event_class) == event_class <= cls

Events == {"start", "failure"}
Callbacks == 1..NumCallbacks

\* what a callback does when it is called: it returns, raises an exception,
\* raises KeyboardInterrupt, or calls event_handler or remove_event_handler
\* itself before it returns
Behaviour(callback) ==
    CASE callback = 2 -> [kind |-> "raises"]
      [] callback = 3 -> [kind |-> "KeyboardInterrupt"]
      [] callback = 4 -> [kind |-> "registers", cls |-> 2, event |-> "start", callback |-> 1]
      [] callback = 5 -> [kind |-> "removes", cls |-> 1, event |-> "start", callback |-> 5]
      [] OTHER -> [kind |-> "returns"]

\* event_handler(cls, event)(callback): the two setdefault calls and the add
event_handler(cbs, cls, event, callback) ==
    LET by_event == IF Has(cbs, cls) THEN Get(cbs, cls) ELSE <<>>
        callbacks == IF Has(by_event, event) THEN Get(by_event, event) ELSE {}
    IN  DictSet(cbs, cls, DictSet(by_event, event, callbacks \cup {callback}))

\* cls.remove_event_handler(event, callback): KeyError of the two
\* subscriptions or of set.remove, else the dict without the callback
remove_event_handler(cbs, cls, event, callback) ==
    IF ~Has(cbs, cls) THEN Raise("KeyError")
    ELSE IF ~Has(Get(cbs, cls), event) THEN Raise("KeyError")
    ELSE IF callback \notin Get(Get(cbs, cls), event) THEN Raise("KeyError")
    ELSE [outcome |-> "ok",
          cbs |-> DictSet(cbs, cls, DictSet(Get(cbs, cls), event,
                                            Get(Get(cbs, cls), event) \ {callback}))]

\* event_callbacks.get(event, []) of the i-th class of the dict
CallbacksFor(cbs, i, event) ==
    IF Has(cbs[i].val, event) THEN Get(cbs[i].val, event) ELSE {}

\* an entry of the history of registrations
LogEntry(op, cls, event, callback) ==
    [op |-> op, cls |-> cls, event |-> event, callback |-> callback]

\* a running trigger_event(event) on an instance of cls: the iterator over
\* the dict has yielded pos of dictlen entries; inside the loop over a set
\* of setsize callbacks, seen of them have been yielded
Dispatch(cls, event, cbs, at) ==
    [called |-> TRUE, cls |-> cls, event |-> event, outcome |-> "running",
     ran |-> <<>>, logged |-> 0, at |-> at, changed |-> FALSE,
     pos |-> 0, dictlen |-> Len(cbs), inset |-> FALSE, seen |-> {}, setsize |-> 0]

\* the two for statements up to the next callback to call: each next() of
\* an iterator raises RuntimeError when its dict or set has changed size,
\* the end of the dict ends the call
RECURSIVE NextCallback(_, _)
NextCallback(cbs, t) ==
    IF t.inset
    THEN IF Cardinality(CallbacksFor(cbs, t.pos, t.event)) # t.setsize
         THEN [t EXCEPT !.outcome = "RuntimeError"]
         ELSE IF CallbacksFor(cbs, t.pos, t.event) \subseteq t.seen
         THEN NextCallback(cbs, [t EXCEPT !.inset = FALSE])
         ELSE t
    ELSE IF Len(cbs) # t.dictlen THEN [t EXCEPT !.outcome = "RuntimeError"]
    ELSE IF t.pos = Len(cbs) THEN [t EXCEPT !.outcome = "returned"]
    ELSE IF ~IsInstance(t.cls, cbs[t.pos + 1].key) \/ ~Has(cbs[t.pos + 1].val, t.event)
    THEN NextCallback(cbs, [t EXCEPT !.pos = t.pos + 1])
    ELSE NextCallback(cbs, [t EXCEPT !.pos = t.pos + 1, !.inset = TRUE, !.seen = {},
                                     !.setsize = Cardinality(Get(cbs[t.pos + 1].val, t.event))])

\* the try statement that lets the exception of a callback escape
CallCallback_Reraises(cbs, log, t, callback) ==
    LET b == Behaviour(callback)
        removed == remove_event_handler(cbs, b.cls, b.event, b.callback)
        Called(result) ==
            [t EXCEPT !.seen = t.seen \cup {callback},
                      !.ran = Append(t.ran, [cls |-> cbs[t.pos].key, callback |-> callback,
                                             result |-> result])]
    IN  IF b.kind = "KeyboardInterrupt"
        THEN [cbs |-> cbs, log |-> log,
              t |-> [Called("KeyboardInterrupt") EXCEPT !.outcome = "returned"]]
        ELSE IF b.kind = "raises" \/ (b.kind = "removes" /\ removed.outcome # "ok")
        THEN [cbs |-> cbs, log |-> log, t |-> [Called("raised") EXCEPT !.outcome = "raised"]]
        ELSE IF b.kind = "registers"
        THEN [cbs |-> event_handler(cbs, b.cls, b.event, b.callback),
              log |-> Append(log, LogEntry("add", b.cls, b.event, b.callback)),
              t |-> [Called("returned") EXCEPT !.changed = TRUE]]
        ELSE IF b.kind = "removes"
        THEN [cbs |-> removed.cbs,
              log |-> Append(log, LogEntry("remove", b.cls, b.event, b.callback)),
              t |-> [Called("returned") EXCEPT !.changed = TRUE]]
        ELSE [cbs |-> cbs, log |-> log, t |-> Called("returned")]

\* the try statement, lines 261-266, on the callback the set iterator
\* yields: KeyboardInterrupt ends trigger_event, any other exception is
\* logged; the dict and the history of registrations after the call
CallCallback(cbs, log, t, callback) ==
    LET b == Behaviour(callback)
        removed == remove_event_handler(cbs, b.cls, b.event, b.callback)
        Called(result) ==
            [t EXCEPT !.seen = t.seen \cup {callback},
                      !.ran = Append(t.ran, [cls |-> cbs[t.pos].key, callback |-> callback,
                                             result |-> result])]
    IN  IF b.kind = "KeyboardInterrupt"
        THEN [cbs |-> cbs, log |-> log,
              t |-> [Called("KeyboardInterrupt") EXCEPT !.outcome = "returned"]]
        ELSE IF b.kind = "raises" \/ (b.kind = "removes" /\ removed.outcome # "ok")
        THEN [cbs |-> cbs, log |-> log,
              t |-> [Called("raised") EXCEPT !.logged = t.logged + 1]]
        ELSE IF b.kind = "registers"
        THEN [cbs |-> event_handler(cbs, b.cls, b.event, b.callback),
              log |-> Append(log, LogEntry("add", b.cls, b.event, b.callback)),
              t |-> [Called("returned") EXCEPT !.changed = TRUE]]
        ELSE IF b.kind = "removes"
        THEN [cbs |-> removed.cbs,
              log |-> Append(log, LogEntry("remove", b.cls, b.event, b.callback)),
              t |-> [Called("returned") EXCEPT !.changed = TRUE]]
        ELSE [cbs |-> cbs, log |-> log, t |-> Called("returned")]

EventInit ==
    /\ event_callbacks = <<>>
    /\ registered = <<>>
    /\ tret = NotCalled

EventIdle ==
    /\ event_callbacks = <<>>
    /\ registered = <<>>
    /\ tret = NotCalled

Dispatching == tret.called /\ tret.outcome = "running"

\* @cls.event_handler(event) applied to callback
RegisterCallback(cls, event, callback) ==
    /\ ~Dispatching
    /\ Len(registered) < MaxRegistrations
    /\ event_callbacks' = event_handler(event_callbacks, cls, event, callback)
    /\ registered' = Append(registered, LogEntry("add", cls, event, callback))
    /\ tret' = NotCalled
    /\ UNCHANGED notEvent

\* cls.remove_event_handler(event, callback)
RemoveCallback(cls, event, callback) ==
    /\ ~Dispatching
    /\ Len(registered) < MaxRegistrations
    /\ LET r == remove_event_handler(event_callbacks, cls, event, callback)
       IN  IF r.outcome = "ok"
           THEN /\ event_callbacks' = r.cbs
                /\ registered' = Append(registered, LogEntry("remove", cls, event, callback))
                /\ tret' = NotCalled @@ [removed |-> "ok"]
           ELSE /\ tret' = NotCalled @@ [removed |-> r.outcome]
                /\ UNCHANGED <<event_callbacks, registered>>
    /\ UNCHANGED notEvent

\* an instance of cls calls trigger_event(event): up to the first callback
TriggerEvent(cls, event) ==
    /\ ~tret.called
    /\ tret' = NextCallback(event_callbacks,
                            Dispatch(cls, event, event_callbacks, Len(registered)))
    /\ UNCHANGED <<event_callbacks, registered, notEvent>>

\* the set iterator yields one of the callbacks it has not yielded yet;
\* trigger_event calls it and goes on to the next callback
DispatchCallback(callback) ==
    /\ Dispatching
    /\ callback \in CallbacksFor(event_callbacks, tret.pos, tret.event) \ tret.seen
    /\ LET r == CallCallback(event_callbacks, registered, tret, callback)
       IN  /\ event_callbacks' = r.cbs
           /\ registered' = r.log
           /\ tret' = IF r.t.outcome = "running" THEN NextCallback(r.cbs, r.t) ELSE r.t
    /\ UNCHANGED notEvent

\* the calls of event_handler and remove_event_handler made: every callback
\* on every class for "start", one callback on every class for "failure"
Registrations ==
    (EventClasses \X {"start"} \X Callbacks) \cup (EventClasses \X {"failure"} \X {1})

EventNext ==
    \/ \E r \in Registrations : RegisterCallback(r[1], r[2], r[3])
    \/ \E r \in Registrations : RemoveCallback(r[1], r[2], r[3])
    \/ \E cls \in EventClasses, event \in Events : TriggerEvent(cls, event)
    \/ \E callback \in Callbacks : DispatchCallback(callback)

(***************************************************************************)
(* Specifications: one per component                                       *)
(***************************************************************************)
Init ==
    FlowInit /\ FlatIdle /\ CompIdle /\ DynIdle /\ BulkIdle /\ IdIdle
    /\ PathIdle /\ WalkIdle /\ ParamIdle /\ EventIdle

Spec == Init /\ [][FlowNext]_vars

InitFlatten ==
    FlowIdle /\ FlatInit /\ CompIdle /\ DynIdle /\ BulkIdle /\ IdIdle
    /\ PathIdle /\ WalkIdle /\ ParamIdle /\ EventIdle

SpecFlatten == InitFlatten /\ [][FlatNext]_vars

InitTaskComplete ==
    FlowIdle /\ FlatIdle /\ TaskCompleteInit /\ DynIdle /\ BulkIdle /\ IdIdle
    /\ PathIdle /\ WalkIdle /\ ParamIdle /\ EventIdle

SpecTaskComplete == InitTaskComplete /\ [][CompNext]_vars

InitWrapper ==
    FlowIdle /\ FlatIdle /\ WrapperInit /\ DynIdle /\ BulkIdle /\ IdIdle
    /\ PathIdle /\ WalkIdle /\ ParamIdle /\ EventIdle

SpecWrapper == InitWrapper /\ [][CompNext]_vars

InitDyn ==
    FlowIdle /\ FlatIdle /\ CompIdle /\ DynInit /\ BulkIdle /\ IdIdle
    /\ PathIdle /\ WalkIdle /\ ParamIdle /\ EventIdle

SpecDyn == InitDyn /\ [][DynNext]_vars

InitBulk ==
    FlowIdle /\ FlatIdle /\ CompIdle /\ DynIdle /\ BulkInit /\ IdIdle
    /\ PathIdle /\ WalkIdle /\ ParamIdle /\ EventIdle

SpecBulk == InitBulk /\ [][BulkNext]_vars

InitIdentity ==
    FlowIdle /\ FlatIdle /\ CompIdle /\ DynIdle /\ BulkIdle /\ IdInit
    /\ PathIdle /\ WalkIdle /\ ParamIdle /\ EventIdle

SpecIdentity == InitIdentity /\ [][IdNext]_vars

InitGetpaths ==
    FlowIdle /\ FlatIdle /\ CompIdle /\ DynIdle /\ BulkIdle /\ IdIdle
    /\ PathInit /\ WalkIdle /\ ParamIdle /\ EventIdle

SpecGetpaths == InitGetpaths /\ [][PathNext]_vars

InitFlattenOutput ==
    FlowIdle /\ FlatIdle /\ CompIdle /\ DynIdle /\ BulkIdle /\ IdIdle
    /\ PathIdle /\ WalkInit /\ ParamIdle /\ EventIdle

SpecFlattenOutput == InitFlattenOutput /\ [][WalkNext]_vars

InitParams ==
    FlowIdle /\ FlatIdle /\ CompIdle /\ DynIdle /\ BulkIdle /\ IdIdle
    /\ PathIdle /\ WalkIdle /\ ParamInit /\ EventIdle

SpecParams == InitParams /\ [][ParamNext]_vars

InitUnconsumed ==
    FlowIdle /\ FlatIdle /\ CompIdle /\ DynIdle /\ BulkIdle /\ IdIdle
    /\ PathIdle /\ WalkIdle /\ UnconsumedInit /\ EventIdle

SpecUnconsumed == InitUnconsumed /\ [][ParamNext]_vars

InitEvents ==
    FlowIdle /\ FlatIdle /\ CompIdle /\ DynIdle /\ BulkIdle /\ IdIdle
    /\ PathIdle /\ WalkIdle /\ ParamIdle /\ EventInit

SpecEvents == InitEvents /\ [][EventNext]_vars

(***************************************************************************)
(* Flow: properties                                                        *)
(***************************************************************************)
AddSucceeded == ret.op = "add" /\ ret.outcome = "ok"

\* C1: every successful add stores its task under a name that was not in
\* the Flow before the call; no add overwrites or removes an entry; the
\* number of entries equals the number of successful adds; every task added
\* earlier is still retrievable under the name it was stored with.
FlowAddsNeverOverwrite ==
    /\ Len(taskset) = Len(addLog)
    /\ Cardinality(Keys(taskset)) = Len(taskset)
    /\ \A i \in 1..Len(addLog) :
          Has(taskset, addLog[i].key) /\ Get(taskset, addLog[i].key) = addLog[i].val
    /\ AddSucceeded =>
          /\ ~Has(ret.before, ret.stored)
          /\ Len(taskset) = Len(ret.before) + 1
          /\ \A i \in 1..Len(ret.before) : taskset[i] = ret.before[i]
          /\ Get(taskset, ret.stored) = ret.intask

\* C1 witness: with autoRename on, a colliding add was stored under a new
\* name next to the entry it collided with.
FlowAddsNeverOverwriteWitness ==
    /\ AddSucceeded
    /\ ret.auto
    /\ Has(ret.before, ret.given)
    /\ Len(taskset) = 3
    /\ Has(taskset, ret.given) /\ Has(taskset, ret.stored)

\* the first k >= 0 for which base_k is not a key of ts
FirstFreeSuffix(base, ts) ==
    CHOOSE k \in 0..Len(ts) :
        /\ ~Has(ts, base \o "_" \o ToString(k))
        /\ \A j \in 0..(k - 1) : Has(ts, base \o "_" \o ToString(j))

\* C2: with autoRename on, a colliding task is stored under its own name
\* with the first unused numeric suffix appended; a task whose name does not
\* collide is stored under its own name.
AddRenamesWithOwnName ==
    (AddSucceeded /\ ret.auto) =>
        ret.stored = IF Has(ret.before, ret.given)
                     THEN ret.given \o "_" \o ToString(FirstFreeSuffix(ret.given, ret.before))
                     ELSE ret.given

\* C3: with autoRename off, adding a task whose name is stored fails with
\* ValueError and changes neither the mapping nor the task's name; adding a
\* task with an unused name stores it under that name.
AddWithoutRenameRejectsCollision ==
    (ret.op = "add" /\ ~ret.auto /\ ret.intask \in TaskObjs) =>
        IF Has(ret.before, ret.given)
        THEN /\ ret.outcome = "ValueError"
             /\ taskset = ret.before
             /\ taskName[ret.intask] = ret.given
        ELSE /\ ret.outcome = "ok"
             /\ taskset = Append(ret.before, [key |-> ret.given, val |-> ret.intask])
             /\ taskName[ret.intask] = ret.given

\* C3 witness: an add with autoRename off was refused for a stored name.
AddWithoutRenameRejectsCollisionWitness ==
    /\ ret.op = "add" /\ ~ret.auto
    /\ ret.outcome = "ValueError"
    /\ Has(ret.before, ret.given)
    /\ Len(taskset) >= 1

\* C4: iterating a Flow yields the stored tasks, each once, in insertion
\* order.
FlowIterYieldsInsertionOrder ==
    ret.op = "iter" =>
        /\ ret.outcome = "ok"
        /\ ret.items = [i \in 1..Len(addLog) |-> addLog[i].val]

(***************************************************************************)
(* flatten: properties                                                     *)
(***************************************************************************)
\* the positions of the leaves (strings and non-iterable objects) of s, as
\* index paths from the root
RECURSIVE LeafPaths(_)
LeafPaths(s) ==
    IF s.tag \in {"str", "atom"} THEN {<<>>}
    ELSE IF s.tag = "None" THEN {}
    ELSE UNION {{<<i>> \o p : p \in LeafPaths(s.items[i])} : i \in 1..Len(s.items)}

RECURSIVE NodeAt(_, _)
NodeAt(s, p) == IF p = <<>> THEN s ELSE NodeAt(s.items[Head(p)], Tail(p))

\* p is left of q: at the first index where they differ p is smaller
RECURSIVE LeftOf(_, _)
LeftOf(p, q) ==
    /\ p # <<>> /\ q # <<>>
    /\ \/ Head(p) < Head(q)
       \/ Head(p) = Head(q) /\ LeftOf(Tail(p), Tail(q))

\* C10: flatten returns the leaves of the structure, each once, in
\* left-to-right order; None contributes nothing, a string is one leaf, the
\* values of a mapping and the elements of an iterable are traversed in order.
FlattenListsLeavesInOrder ==
    flat.called =>
        LET P == LeafPaths(struct)
        IN  /\ Len(flat.value) = Cardinality(P)
            /\ \A p \in P :
                 flat.value[1 + Cardinality({q \in P : LeftOf(q, p)})] = NodeAt(struct, p)
            /\ (struct = None => flat.value = <<>>)
            /\ (struct.tag \in {"str", "atom"} => flat.value = <<struct>>)

\* C10 witness: a mapping nested in a list, holding a string, a None and an
\* object, was flattened to two leaves.
FlattenListsLeavesInOrderWitness ==
    /\ flat.called
    /\ struct.tag = "list" /\ Len(struct.items) = 2
    /\ struct.items[1].tag = "dict" /\ struct.items[1].items = <<None>>
    /\ struct.items[2].tag = "str"
    /\ Len(flat.value) = 1

(***************************************************************************)
(* complete(): properties                                                  *)
(***************************************************************************)
\* the leaves of a structure, as a set
LeafSet(s) == {NodeAt(s, p) : p \in LeafPaths(s)}

PlainCall == cret.called /\ ctasks[cret.task].kind = "Task"
WrapperCall == cret.called /\ ctasks[cret.task].kind = "WrapperTask"

\* C5: the default complete() returns false and records one warning when
\* output() holds no target at all (None, empty or nested-empty); otherwise
\* it returns true iff every target of output() exists, without a warning.
TaskCompleteIffAllOutputsExist ==
    PlainCall =>
        LET outs == LeafSet(ctasks[cret.task].output)
        IN  IF outs = {}
            THEN cret.value = FALSE /\ cret.warnings = 1
            ELSE /\ cret.value = (\A o \in outs : exists[o.id])
                 /\ cret.warnings = 0

\* C5 witness: complete() was false with a warning for a nested-empty
\* output.
TaskCompleteIffAllOutputsExistWitness ==
    /\ PlainCall
    /\ ctasks[cret.task].output.tag = "list"
    /\ Len(ctasks[cret.task].output.items) = 2
    /\ LeafSet(ctasks[cret.task].output) = {}
    /\ cret.value = FALSE /\ cret.warnings = 1

\* C6: WrapperTask.complete() is true iff complete() is true for every task
\* of deps(), the hidden dependencies of an overridden _requires() included.
WrapperCompleteIffAllDepsComplete ==
    WrapperCall =>
        LET ds == deps(ctasks, cret.task)
        IN  cret.value = (\A i \in 1..Len(ds) : complete(ctasks, exists, ds[i].id).value)

\* C6 as amended: WrapperTask.complete() is true iff complete() is true for
\* every task of flatten(requires()); a wrapper whose requires() is empty is
\* complete.
WrapperCompleteIffAllRequiresComplete ==
    WrapperCall =>
        cret.value = (\A r \in LeafSet(ctasks[cret.task].requires) :
                        complete(ctasks, exists, r.id).value)

\* C6 witness: a wrapper whose requirements are complete returned true
\* although its hidden dependency is not complete.
WrapperCompleteIffAllRequiresCompleteWitness ==
    /\ WrapperCall
    /\ cret.value = TRUE
    /\ LeafSet(ctasks[cret.task].requires) # {}
    /\ \E i \in 1..Len(ctasks[cret.task].hidden) :
         ~complete(ctasks, exists, ctasks[cret.task].hidden[i].id).value

(***************************************************************************)
(* DynamicRequirements.complete: properties                                *)
(***************************************************************************)
\* C7: with a custom predicate, complete(complete_fn) invokes the predicate
\* exactly once, with complete_fn or with the per-task task.complete() when
\* complete_fn is omitted, returns its result and never runs the default
\* check; without one it returns true iff complete_fn is true for every task
\* of flatten(requirements).
DynCompleteDelegatesToCustom ==
    dret.called =>
        LET fn == IF dret.cf.given THEN dret.cf.fn ELSE taskDone
        IN  IF dynreq.custom_complete # "None"
            THEN /\ customCalls = dret.customBefore + 1
                 /\ defaultEvals = dret.defaultBefore
                 /\ dret.arg = fn
                 /\ dret.value = ApplyCustom(dynreq.custom_complete, fn, dynreq.requirements)
            ELSE /\ customCalls = dret.customBefore
                 /\ dret.value = (\A r \in LeafSet(dynreq.requirements) : fn[r.id])

\* C7 witness: a custom predicate answered true, with complete_fn omitted,
\* although a wrapped task is not complete.
DynCompleteDelegatesToCustomWitness ==
    /\ dret.called
    /\ dynreq.custom_complete = "any"
    /\ ~dret.cf.given
    /\ dret.value = TRUE
    /\ \E r \in LeafSet(dynreq.requirements) : ~taskDone[r.id]
    /\ customCalls = 2 /\ defaultEvals = 0

(***************************************************************************)
(* bulk_complete: properties                                               *)
(***************************************************************************)
\* the instance an element constructs: positional values fill a then b, a
\* missing b takes its default
InstanceOf(t) ==
    LET a == IF t.kind = "seq" THEN t.args[1]
             ELSE IF t.kind = "dict" THEN Get(t.kwargs, "a")
             ELSE t.value
        b == IF t.kind = "seq" /\ Len(t.args) = 2 THEN t.args[2]
             ELSE IF t.kind = "dict" /\ Has(t.kwargs, "b") THEN Get(t.kwargs, "b")
             ELSE BulkParams[2].default
    IN  <<KwEntry("a", a), KwEntry("b", b)>>

\* C8: bulk_complete returns exactly the elements of parameter_tuples whose
\* instance is complete: none omitted, none added, nothing foreign.
BulkCompleteReturnsCompleteTuples ==
    (bret.called /\ bret.outcome = "ok") =>
        bret.value = SelectSeq(parameter_tuples, LAMBDA t : instDone[InstanceOf(t)])

\* C8 witness: of a dict and a single value, only the dict's instance is
\* complete and only the dict came back.
BulkCompleteReturnsCompleteTuplesWitness ==
    /\ bret.called /\ bret.outcome = "ok"
    /\ Len(parameter_tuples) = 2
    /\ parameter_tuples[1].kind = "single"
    /\ parameter_tuples[2].kind = "dict"
    /\ bret.value = <<parameter_tuples[2]>>

(***************************************************************************)
(* Task identity: properties                                               *)
(***************************************************************************)
\* the values a task holds for the significant and public parameters
SignificantPublic(t) ==
    {e \in {t.param_kwargs[i] : i \in 1..Len(t.param_kwargs)} :
       ParamOf(cdef, e.key).significant /\ ParamOf(cdef, e.key).visibility = "PUBLIC"}

\* C9: two tasks of one definition with the same significant-and-public
\* parameter values have the same task_id, are equal and hash alike,
\* whatever their other parameter values are.
SameSignificantPublicSameIdentity ==
    \A k1 \in DOMAIN inst, k2 \in DOMAIN inst :
        (inst[k1].built /\ inst[k2].built
         /\ SignificantPublic(inst[k1]) = SignificantPublic(inst[k2])) =>
            /\ inst[k1].task_id = inst[k2].task_id
            /\ TaskEq(inst[k1], inst[k2])
            /\ TaskHash(inst[k1]) = TaskHash(inst[k2])

\* C9 witness: two tasks that agree on a significant public parameter and
\* differ on another parameter have one task_id.
SameSignificantPublicSameIdentityWitness ==
    /\ inst[1].built /\ inst[2].built
    /\ inst[1].param_kwargs # inst[2].param_kwargs
    /\ SignificantPublic(inst[1]) # {}
    /\ SignificantPublic(inst[1]) = SignificantPublic(inst[2])
    /\ inst[1].task_id = inst[2].task_id

(***************************************************************************)
(* Flow: stored keys and task names                                        *)
(***************************************************************************)
\* C19: after any sequence of add calls every entry of the Flow is stored
\* under the current name of its task.
FlowKeysAreTaskNames ==
    \A i \in 1..Len(taskset) : taskset[i].key = taskName[taskset[i].val]

(***************************************************************************)
(* getpaths: properties                                                    *)
(***************************************************************************)
\* the paths of all nodes that are not dict, list or tuple
RECURSIVE PathsOfLeaves(_)
PathsOfLeaves(s) ==
    IF s.tag \in {"dict", "list", "tuple", "iter"}
    THEN UNION {{<<i>> \o p : p \in PathsOfLeaves(s.items[i])} : i \in 1..Len(s.items)}
    ELSE {<<>>}

\* r is s with every task replaced by its output: same containers, same
\* keys, same lengths
RECURSIVE MapsToOutputs(_, _)
MapsToOutputs(s, r) ==
    IF s.tag = "task" THEN r = goutput[s.id]
    ELSE IF s.tag = "dict"
    THEN /\ r.tag = "dict" /\ r.keys = s.keys /\ Len(r.items) = Len(s.items)
         /\ \A i \in 1..Len(s.items) : MapsToOutputs(s.items[i], r.items[i])
    ELSE IF s.tag \in {"list", "tuple", "iter"}
    THEN /\ r.tag = (IF s.tag = "iter" THEN "list" ELSE s.tag)
         /\ Len(r.items) = Len(s.items)
         /\ \A i \in 1..Len(s.items) : MapsToOutputs(s.items[i], r.items[i])
    ELSE r = List(<<>>)                 \* the empty string

\* the flattened outputs of the tasks of a flat list, in order
RECURSIVE OutputsOf(_)
OutputsOf(ts) ==
    IF ts = <<>> THEN <<>>
    ELSE (IF Head(ts).tag = "task" THEN flatten(goutput[Head(ts).id]) ELSE <<>>)
         \o OutputsOf(Tail(ts))

\* the paths of all nodes of a structure
RECURSIVE PathsOfNodes(_)
PathsOfNodes(s) ==
    {<<>>} \cup (IF s.tag \in {"dict", "list", "tuple", "iter"}
                 THEN UNION {{<<i>> \o p : p \in PathsOfNodes(s.items[i])} :
                               i \in 1..Len(s.items)}
                 ELSE {})

AllLeavesAreTasks ==
    \A p \in PathsOfLeaves(gret.struct) : NodeAt(gret.struct, p).tag = "task"

\* the frame of getpaths on the node at path p: the frame of the caller, the
\* frame of getpaths(struct) and two frames for every level of nesting
FrameOf(p) == gret.caller + 1 + 2 * Len(p)

\* the call stack has room for the argument: on every node, for the frame of
\* output() of an instance of Task itself, and else for the frames of the
\* first isinstance check of a class, made from code that is not
\* specialised yet
StackHasRoom ==
    \A p \in PathsOfNodes(gret.struct) :
        FrameOf(p) + (IF NodeAt(gret.struct, p) = TaskRef(TaskItself) THEN OutputFrames
                      ELSE FirstCheckFrames(gret.hierarchy) + 2 * ColdCallFrames)
            <= RecursionLimit

\* the call stack has no room for some node of the argument: not for the
\* frame of output() of an instance of Task itself, or else not for the
\* frames of a check whose answer is known
StackIsFull ==
    \E p \in PathsOfNodes(gret.struct) :
        FrameOf(p) + (IF NodeAt(gret.struct, p) = TaskRef(TaskItself) THEN OutputFrames
                      ELSE InstanceCheckFrames)
            > RecursionLimit

\* C11 as stated: what getpaths returns has the shape of its argument, as it
\* was given, with every task replaced by its output (a bare task by its
\* output itself, a mapping by a mapping with the same keys, a list or tuple
\* by one of the same class, length and order, any other sequence by a list
\* of the same length and order), and flattening it gives the flattened
\* outputs of the tasks of the flattened argument, in order.
GetpathsKeepsShape ==
    gret.called =>
        /\ (\A p \in PathsOfLeaves(gret.struct) : NodeAt(gret.struct, p).tag = "task")
              => gret.outcome = "ok"
        /\ gret.outcome = "ok" =>
              /\ MapsToOutputs(gret.struct, gret.value)
              /\ flatten(gret.value) = OutputsOf(flatten(gret.struct))

\* C11 amended: a structure of tasks is mapped when the call stack has room
\* for its nesting, and getpaths raises RecursionError when the stack has no
\* room for one of its nodes; what getpaths returns has the shape of its
\* argument, as it was given, with every task replaced by its output (a
\* bare task by its output itself, a mapping by a mapping with the same
\* keys, a list or tuple by one of the same class, length and order, any
\* other sequence by a list of the same length and order), and flattening
\* it gives the flattened outputs of the tasks of the flattened argument,
\* in order.
GetpathsKeepsShapeInRoom ==
    gret.called =>
        /\ AllLeavesAreTasks =>
              /\ gret.outcome \in {"ok", "RecursionError"}
              /\ StackHasRoom => gret.outcome = "ok"
              /\ StackIsFull => gret.outcome = "RecursionError"
        /\ gret.outcome = "ok" =>
              /\ MapsToOutputs(gret.struct, gret.value)
              /\ flatten(gret.value) = OutputsOf(flatten(gret.struct))

\* C11 witness: a sequence of two tasks with different, non-empty outputs
\* was mapped by a call that had just the room it needs.
GetpathsKeepsShapeWitness ==
    /\ gret.called /\ gret.outcome = "ok"
    /\ gret.caller + 3 + FirstCheckFrames(gret.hierarchy) + 2 * ColdCallFrames
         = RecursionLimit
    /\ gret.struct.tag \in {"list", "tuple"} /\ Len(gret.struct.items) = 2
    /\ gret.struct.items[1].tag = "task" /\ gret.struct.items[2].tag = "task"
    /\ gret.struct.items[1].id # gret.struct.items[2].id
    /\ goutput[1] # goutput[2]
    /\ Len(flatten(gret.value)) = 3

\* the leaves that are neither task, mapping nor iterable
NonIterableLeaves(s) == {p \in PathsOfLeaves(s) : NodeAt(s, p).tag \in {"None", "atom"}}

\* the leaves that are non-empty strings
StringLeaves(s) ==
    {p \in PathsOfLeaves(s) : NodeAt(s, p).tag = "str" /\ NodeAt(s, p).s # ""}

\* C12 as stated: getpaths fails with a TypeError whenever some leaf is
\* neither task, mapping nor iterable, and hands back no partial result.
GetpathsRaisesTypeError ==
    (gret.called /\ NonIterableLeaves(gret.struct) # {}) =>
        /\ gret.outcome = "TypeError"
        /\ "value" \notin DOMAIN gret

\* C12 amended: whenever some leaf is neither task, mapping nor iterable,
\* getpaths hands back no result and fails with the plain Exception raised
\* in place of the caught TypeError, or with a RecursionError: that of a
\* non-empty string that is met before every such leaf, or that of a call
\* stack without room for the nesting of the argument.
GetpathsRaisesException ==
    (gret.called /\ NonIterableLeaves(gret.struct) # {}) =>
        LET raising == NonIterableLeaves(gret.struct) \cup StringLeaves(gret.struct)
            first == CHOOSE p \in raising : \A q \in raising : ~LeftOf(q, p)
        IN  /\ gret.outcome \in {"Exception", "RecursionError"}
            /\ gret.outcome = "Exception" => first \notin StringLeaves(gret.struct)
            /\ StackHasRoom =>
                  gret.outcome = IF first \in StringLeaves(gret.struct)
                                 THEN "RecursionError" ELSE "Exception"
            /\ "value" \notin DOMAIN gret

\* C12 witness: a number nested after a task with outputs made getpaths
\* raise.
GetpathsRaisesExceptionWitness ==
    /\ gret.called /\ gret.outcome = "Exception"
    /\ gret.struct.tag = "list" /\ Len(gret.struct.items) = 2
    /\ gret.struct.items[1].tag = "task" /\ flatten(goutput[gret.struct.items[1].id]) # <<>>
    /\ gret.struct.items[2] = Atom(0)

\* C20: called with room on the call stack for the nesting of its argument,
\* getpaths returns or raises its structural error; it never recurses until
\* the call stack is exhausted, also when a leaf is a string.
GetpathsRecursionIsBounded ==
    (gret.called /\ StackHasRoom) => gret.outcome \in {"ok", "Exception"}

(***************************************************************************)
(* flatten_output: properties                                              *)
(***************************************************************************)
HasOutput(t) == flatten(ftasks[t].output) # <<>>

Required(t) ==
    LET reqs == flatten(ftasks[t].requires)
    IN  {reqs[i].id : i \in 1..Len(reqs)}

\* the output-less tasks reachable from the root through output-less tasks
RECURSIVE WrappersFrom(_)
WrappersFrom(W) ==
    LET more == W \cup {r \in UNION {Required(t) : t \in W} : ~HasOutput(r)}
    IN  IF more = W THEN W ELSE WrappersFrom(more)

\* the tasks with outputs reachable from the root along paths whose
\* intermediate tasks all have empty output
Contributors ==
    IF HasOutput(froot) THEN {froot}
    ELSE {r \in UNION {Required(t) : t \in WrappersFrom({froot})} : HasOutput(r)}

\* breadth-first discovery order of the tasks with outputs, every task
\* looked at once
RECURSIVE Discovery(_, _)
Discovery(queue, seen) ==
    IF queue = <<>> THEN <<>>
    ELSE LET h == Head(queue)
             reqs == flatten(ftasks[h].requires)
         IN  IF h \in seen THEN Discovery(Tail(queue), seen)
             ELSE IF HasOutput(h) THEN <<h>> \o Discovery(Tail(queue), seen \cup {h})
             ELSE Discovery(Tail(queue) \o [i \in 1..Len(reqs) |-> reqs[i].id],
                            seen \cup {h})

\* the flattened outputs of a sequence of tasks, one after the other
RECURSIVE OutputsInOrder(_)
OutputsInOrder(ts) ==
    IF ts = <<>> THEN <<>>
    ELSE flatten(ftasks[Head(ts)].output) \o OutputsInOrder(Tail(ts))

\* a sequence without the later occurrences of its elements
RECURSIVE Dedup(_)
Dedup(q) ==
    IF q = <<>> THEN <<>>
    ELSE LET front == Dedup(SubSeq(q, 1, Len(q) - 1))
             last == q[Len(q)]
         IN  IF \E i \in 1..Len(front) : front[i] = last THEN front
             ELSE Append(front, last)

\* C13 as stated: flatten_output returns the de-duplicated union, in
\* breadth-first discovery order, of the outputs of the tasks with outputs
\* reachable through output-less tasks; no output handle appears twice; a
\* task with outputs is never expanded.
FlattenOutputIsDeduplicatedUnion ==
    /\ \A t \in expanded : ~HasOutput(t)
    /\ fpc = "done" =>
          /\ {fret[i] : i \in 1..Len(fret)}
                = UNION {LeafSet(ftasks[t].output) : t \in Contributors}
          /\ fret = Dedup(OutputsInOrder(Discovery(<<froot>>, {})))
          /\ \A i, j \in 1..Len(fret) : fret[i] = fret[j] => i = j

\* C13 amended: flatten_output returns the concatenation, in breadth-first
\* discovery order, of the outputs of the tasks with outputs reachable
\* through output-less tasks, every such task contributing exactly once; a
\* task with outputs is never expanded.
FlattenOutputIsUnionOverTasks ==
    /\ \A t \in expanded : ~HasOutput(t)
    /\ fpc = "done" =>
          /\ {output_tasks[i] : i \in 1..Len(output_tasks)} = Contributors
          /\ \A i, j \in 1..Len(output_tasks) : output_tasks[i] = output_tasks[j] => i = j
          /\ output_tasks = Discovery(<<froot>>, {})
          /\ fret = OutputsInOrder(output_tasks)

\* C13 witness: a walk through two output-less tasks reached the same task
\* with outputs twice, did not expand it, and returned its output once.
FlattenOutputIsUnionOverTasksWitness ==
    /\ fpc = "done"
    /\ Cardinality(expanded) = 2
    /\ \E t \in 1..WalkTasks :
          HasOutput(t) /\ dequeues[t] = 2 /\ Required(t) # {} /\ output_tasks = <<t>>
    /\ Len(fret) = 1

\* C18: in one walk no task is taken off the deque twice.
FlattenOutputVisitsOnce ==
    \A t \in DOMAIN dequeues : dequeues[t] <= 1

(***************************************************************************)
(* Task.get_param_values: properties                                       *)
(***************************************************************************)
\* the last call: the declared parameters, the positional ones, and the
\* names filled by position
CallParams == pclasses[pret.cls].params
CallPositional == SelectSeq(CallParams, LAMBDA q : q.positional)
FilledByPosition ==
    {CallPositional[i].name : i \in 1..Len(CallPositional) \cap 1..Len(pret.args)}

\* the four cases of the claim
TooManyPositional == Len(pret.args) > Len(CallPositional)
DuplicateKeyword(i) == pret.kwargs[i].key \in FilledByPosition
UnknownKeyword(i) == pret.kwargs[i].key \notin ParamNames(CallParams)
NoValue(q) ==
    /\ q.name \notin FilledByPosition \cup Keys(pret.kwargs)
    /\ ~q.hasDefault
    /\ ~HasTaskValueRaises(q)
UnreadableValue(q) ==
    /\ q.name \notin FilledByPosition \cup Keys(pret.kwargs)
    /\ HasTaskValueRaises(q)

\* one value per declared parameter, in declaration order: the positional
\* argument, else the keyword argument, else the default, a list or a set
\* among them as the tuple of its elements
OneValuePerParameter ==
    /\ pret.outcome = "ok"
    /\ Len(pret.values) = Len(CallParams)
    /\ \A i \in 1..Len(CallParams) :
         LET q == CallParams[i]
         IN  /\ pret.values[i].key = q.name
             /\ pret.values[i].val.type \notin {"list", "set"}
             /\ pret.values[i].val =
                  list_to_tuple(
                    IF q.name \in FilledByPosition
                    THEN pret.args[CHOOSE k \in 1..Len(CallPositional) :
                                     CallPositional[k].name = q.name]
                    ELSE IF Has(pret.kwargs, q.name) THEN Get(pret.kwargs, q.name)
                    ELSE q.default)

\* C14 as stated: each of the four cases raises its exception whenever it
\* applies, and every other call returns one value per declared parameter in
\* declaration order.
ParamErrorsByCase ==
    (pret.called /\ \A i \in 1..Len(CallParams) : ~HasTaskValueRaises(CallParams[i])) =>
        /\ (\E i \in 1..Len(pret.kwargs) : DuplicateKeyword(i))
              => pret.outcome = "DuplicateParameterException"
        /\ (\E i \in 1..Len(pret.kwargs) : UnknownKeyword(i))
              => pret.outcome = "UnknownParameterException"
        /\ TooManyPositional => pret.outcome = "UnknownParameterException"
        /\ (\E i \in 1..Len(CallParams) : NoValue(CallParams[i]))
              => pret.outcome = "MissingParameterException"
        /\ (/\ ~TooManyPositional
            /\ \A i \in 1..Len(pret.kwargs) : ~DuplicateKeyword(i) /\ ~UnknownKeyword(i)
            /\ \A i \in 1..Len(CallParams) : ~NoValue(CallParams[i]))
              => OneValuePerParameter

\* C14 amended: the first case met decides the exception: too many
\* positional arguments, then the keywords in the order given (a repeated
\* positional one, else an undeclared one), then the parameters in
\* declaration order (a value that cannot be read, else a missing one); a
\* call without any of them returns one value per declared parameter in
\* declaration order; a failing call returns nothing.
ParamErrorsFirstDetected ==
    pret.called =>
        LET badKws == {i \in 1..Len(pret.kwargs) : DuplicateKeyword(i) \/ UnknownKeyword(i)}
            firstKw == CHOOSE i \in badKws : \A k \in badKws : i <= k
            unfilled == {i \in 1..Len(CallParams) :
                           NoValue(CallParams[i]) \/ UnreadableValue(CallParams[i])}
            firstUnfilled == CHOOSE i \in unfilled : \A k \in unfilled : i <= k
        IN  /\ IF TooManyPositional THEN pret.outcome = "UnknownParameterException"
               ELSE IF badKws # {}
               THEN pret.outcome = IF DuplicateKeyword(firstKw)
                                   THEN "DuplicateParameterException"
                                   ELSE "UnknownParameterException"
               ELSE IF unfilled # {}
               THEN pret.outcome = IF UnreadableValue(CallParams[firstUnfilled])
                                   THEN "ValueError"
                                   ELSE "MissingParameterException"
               ELSE OneValuePerParameter
            /\ pret.outcome # "ok" => "values" \notin DOMAIN pret

\* C14 witness: a call that repeats a positional parameter by keyword,
\* names an undeclared keyword after it and leaves a parameter without value
\* raised DuplicateParameterException.
ParamErrorsFirstDetectedWitness ==
    /\ pret.called
    /\ pret.outcome = "DuplicateParameterException"
    /\ Len(pret.kwargs) = 2 /\ DuplicateKeyword(1) /\ UnknownKeyword(2)
    /\ \E i \in 1..Len(CallParams) : NoValue(CallParams[i])

\* C15: the unconsumed-key warning is emitted at most once per family and
\* key, and only for keys of the family's section that no declared
\* parameter consumes and ignore_unconsumed does not list.
UnconsumedWarnedOncePerFamilyKey ==
    /\ \A i, j \in 1..Len(warned) :
          (warned[i].family = warned[j].family /\ warned[i].key = warned[j].key) => i = j
    /\ \A i \in 1..Len(warned) :
          LET w == warned[i]
          IN  /\ pclasses[w.cls].family = w.family
              /\ conf[w.family].present
              /\ \E k \in 1..Len(conf[w.family].keys) :
                    Replace(conf[w.family].keys[k], "-", "_") = w.key
              /\ w.key \notin ParamNames(pclasses[w.cls].params)
              /\ w.key \notin pclasses[w.cls].ignore_unconsumed


(***************************************************************************)
(* Event callbacks                                                         *)
(***************************************************************************)
\* the callbacks registered on cls for event after the first n entries of
\* the history, in the order of their registration
RECURSIVE RegisteredFor(_, _, _)
RegisteredFor(cls, event, n) ==
    IF n = 0 THEN <<>>
    ELSE LET before == RegisteredFor(cls, event, n - 1)
             e == registered[n]
         IN  IF e.cls # cls \/ e.event # event THEN before
             ELSE IF e.op = "remove" THEN SelectSeq(before, LAMBDA c : c # e.callback)
             ELSE IF \E i \in 1..Len(before) : before[i] = e.callback THEN before
             ELSE Append(before, e.callback)

\* the callbacks of cls the last trigger_event called, in the order of the calls
RanFor(cls) ==
    LET mine == SelectSeq(tret.ran, LAMBDA r : r.cls = cls)
    IN  [i \in 1..Len(mine) |-> mine[i].callback]

Finished == tret.called /\ tret.outcome # "running"

Interrupted ==
    \E i \in 1..Len(tret.ran) : tret.ran[i].result = "KeyboardInterrupt"

\* C16: when no callback raises KeyboardInterrupt, trigger_event calls the
\* callbacks registered for the event on each matching class in the order
\* of their registration on that class, each exactly once.
EventCallbacksInRegistrationOrder ==
    (Finished /\ ~Interrupted) =>
        \A cls \in EventClasses :
            IsInstance(tret.cls, cls) => RanFor(cls) = RegisteredFor(cls, tret.event, tret.at)

\* the (class, callback) pairs registered when trigger_event was called
Matching ==
    {p \in EventClasses \X Callbacks :
        /\ IsInstance(tret.cls, p[1])
        /\ \E i \in 1..Len(RegisteredFor(p[1], tret.event, tret.at)) :
              RegisteredFor(p[1], tret.event, tret.at)[i] = p[2]}

TimesRan(p) ==
    Cardinality({i \in 1..Len(tret.ran) :
                   tret.ran[i].cls = p[1] /\ tret.ran[i].callback = p[2]})

\* C17: the exception of a callback never reaches the caller of
\* trigger_event: another exception than KeyboardInterrupt is logged and
\* the callbacks after it still run, so that, as long as no callback raises
\* KeyboardInterrupt or changes the registrations, every matching callback
\* runs once; a callback that raises KeyboardInterrupt is the last one
\* called, of every matching class, and trigger_event returns.
EventFailuresAreIsolated ==
    tret.called =>
        /\ tret.outcome \in {"running", "returned", "RuntimeError"}
        /\ tret.outcome = "RuntimeError" => tret.changed
        /\ tret.logged = Cardinality({i \in 1..Len(tret.ran) : tret.ran[i].result = "raised"})
        /\ (Finished /\ ~Interrupted /\ ~tret.changed) =>
              /\ tret.outcome = "returned"
              /\ \A p \in EventClasses \X Callbacks :
                   TimesRan(p) = IF p \in Matching THEN 1 ELSE 0
        /\ \A i \in 1..Len(tret.ran) :
              tret.ran[i].result = "KeyboardInterrupt" =>
                  i = Len(tret.ran) /\ tret.outcome = "returned"

\* a raising callback was logged and a later callback still ran; that one
\* raised KeyboardInterrupt and a matching callback was left out
EventFailuresAreIsolatedWitness ==
    /\ Finished
    /\ tret.outcome = "returned"
    /\ Len(tret.ran) = 2
    /\ tret.ran[1].result = "raised"
    /\ tret.ran[2].result = "KeyboardInterrupt"
    /\ tret.logged = 1
    /\ \E p \in Matching : TimesRan(p) = 0

====
